---- MODULE Spec2Model ----
(***************************************************************************)
(* A model of uproot's newrootio.py: the directory of keys of an open ROOT *)
(* file (ROOTDirectory, TKey), name resolution with '/' and ';', recursive *)
(* listing, and the framed readers behind key.get().                       *)
(*                                                                         *)
(* Byte strings are sequences of one-character strings, so that splitting, *)
(* formatting and parsing are computed and not assumed.  The byte source   *)
(* is held abstractly in `file`: which directory record starts at which    *)
(* offset, and what the bytes that are no directory record decode to.      *)
(***************************************************************************)
EXTENDS Integers, Sequences, FiniteSets, TLC

VARIABLES
    file,      \* the byte source: the records it holds, by offset
    keys,      \* the open directory's _keys: TKey objects with their _cursor
    context,   \* the _FileContext shared by every key (its class map)
    listed,    \* the names the last allkeys() of the open directory yielded
    ret,       \* the last call made on the open directory and what it returned
    stream,    \* the bytes of a container record being read, as its fields
    cur,       \* the Cursor of that read: index, origin, refs
    got,       \* the elements the container's loop has decoded so far
    pc,        \* where the container's _readinto is, and what it raised
    boot,      \* where ROOTDirectory.read(source) is, the file it reads
    events     \* the calls the file source has received: reads and dismiss

dvars == <<file, keys, context, listed, ret>>
rvars == <<stream, cur, got, pc>>
ovars == <<boot, events>>
vars == <<file, keys, context, listed, ret, stream, cur, got, pc, boot, events>>

----------------------------------------------------------------------------
(* Bounds *)

\* longest key list of the open (root) directory
MaxKeys == 2
\* how many times the header of one directory key is read through its cursor
MaxReads == 2

----------------------------------------------------------------------------
(* Byte strings *)

Slash == "/"
Semi  == ";"

DigitChars == <<"0", "1", "2", "3", "4", "5", "6", "7", "8", "9">>

IsDigit(c) == \E d \in 1..10 : DigitChars[d] = c

DigitVal(c) == (CHOOSE d \in 1..10 : DigitChars[d] = c) - 1

Contains(s, c) == \E i \in 1..Len(s) : s[i] = c

\* bytes.rindex(c): the last position of c
RIndex(s, c) == CHOOSE i \in 1..Len(s) : s[i] = c /\ \A j \in (i+1)..Len(s) : s[j] # c

\* the first position of c
Index(s, c) == CHOOSE i \in 1..Len(s) : s[i] = c /\ \A j \in 1..(i-1) : s[j] # c

\* bytes.split(b"/")
RECURSIVE Split(_)
Split(s) ==
    IF ~Contains(s, Slash) THEN <<s>>
    ELSE LET i == Index(s, Slash)
         IN <<SubSeq(s, 1, i - 1)>> \o Split(SubSeq(s, i + 1, Len(s)))

\* "{0}".format(n) of a non-negative integer
RECURSIVE Decimal(_)
Decimal(n) ==
    IF n < 10 THEN <<DigitChars[n + 1]>>
    ELSE Decimal(n \div 10) \o <<DigitChars[(n % 10) + 1]>>

\* int(b) accepts a non-empty string of digits (and raises ValueError otherwise)
IsDecimal(s) == Len(s) > 0 /\ \A i \in 1..Len(s) : IsDigit(s[i])

\* a parse that keeps the last digit only
LastDigitOnly(s) == DigitVal(s[Len(s)])

RECURSIVE ParseInt(_)
ParseInt(s) ==
    IF Len(s) = 0 THEN 0
    ELSE 10 * ParseInt(SubSeq(s, 1, Len(s) - 1)) + DigitVal(s[Len(s)])

----------------------------------------------------------------------------
(* Values *)

\* cycle=None
None == <<>>

NoErr == "none"

Err(e) == [kind |-> "err", err |-> e]

IsErr(v) == v.kind = "err"

----------------------------------------------------------------------------
(* TKey *)

\* struct sizes of ROOTDirectory._format3, _format4_small, _format4_big
Format3Size == 18
Format4SmallSize == 12
Format4BigSize == 24

\* a selection by the file's fCompress: compressed when it is not 0
TKeyReadByFlag(d) ==
    [fName |-> d.fName, fCycle |-> d.fCycle, fClassName |-> d.fClassName,
     fSeekKey |-> d.fSeekKey, fKeylen |-> d.fKeylen,
     fNbytes |-> d.fNbytes, fObjlen |-> d.fObjlen,
     source |-> IF context.compression # 0
                THEN [kind |-> "compressed", at |-> d.fSeekKey + d.fKeylen,
                      nbytes |-> d.fNbytes - d.fKeylen, objlen |-> d.fObjlen]
                ELSE [kind |-> "file"],
     cursor |-> IF context.compression # 0
                THEN [index |-> 0, origin |-> 0 - d.fKeylen]
                ELSE [index |-> d.fSeekKey + d.fKeylen, origin |-> d.fSeekKey]]

\* TKey._readinto, from the payload-source selection on: the key's fields as
\* stored (d), then _source and _cursor
TKeyRead(d) ==
    IF d.fObjlen # d.fNbytes - d.fKeylen
    THEN [fName |-> d.fName, fCycle |-> d.fCycle, fClassName |-> d.fClassName,
          fSeekKey |-> d.fSeekKey, fKeylen |-> d.fKeylen,
          fNbytes |-> d.fNbytes, fObjlen |-> d.fObjlen,
          source |-> [kind |-> "compressed", at |-> d.fSeekKey + d.fKeylen,
                      nbytes |-> d.fNbytes - d.fKeylen, objlen |-> d.fObjlen],
          cursor |-> [index |-> 0, origin |-> 0 - d.fKeylen]]
    ELSE [fName |-> d.fName, fCycle |-> d.fCycle, fClassName |-> d.fClassName,
          fSeekKey |-> d.fSeekKey, fKeylen |-> d.fKeylen,
          fNbytes |-> d.fNbytes, fObjlen |-> d.fObjlen,
          source |-> [kind |-> "file"],
          cursor |-> [index |-> d.fSeekKey + d.fKeylen, origin |-> d.fSeekKey]]

\* keys = [TKey.read(source, subcursor, context) for i in range(nkeys)]
ReadKeys(ds) == [i \in 1..Len(ds) |-> TKeyRead(ds[i])]

\* ROOTDirectory.read(source, cursor, context, mykey): the directory and the
\* cursor it leaves.  The cursor is the caller's object: what it read stays read.
DirRead(source, cursor, mykey) ==
    IF source.kind = "file" /\ cursor.index \in DOMAIN file.dirs
    THEN LET d == file.dirs[cursor.index]
             n == Format3Size
                    + (IF d.fVersion <= 1000 THEN Format4SmallSize ELSE Format4BigSize)
         IN [val |-> [kind |-> "dir", name |-> mykey.fName, keys |-> ReadKeys(d.keys)],
             cursor |-> [cursor EXCEPT !.index = @ + n]]
    ELSE \* the bytes at this offset are no directory record
         IF file.junk = "raise"
         THEN [val |-> Err("DecodeError"),
               cursor |-> [cursor EXCEPT !.index = @ + Format3Size]]
         ELSE [val |-> [kind |-> "dir", name |-> mykey.fName, keys |-> <<>>],
               cursor |-> [cursor EXCEPT !.index = @ + Format3Size + Format4SmallSize]]

\* cls.read(source, cursor, context) of a class of the class map: a new object
\* decoded from the bytes at the cursor
ClassRead(cls, source, cursor) ==
    [kind |-> "obj", cls |-> cls, source |-> source, at |-> cursor.index]

\* Undefined(source, cursor, context): the class defines no constructor, so
\* the call with arguments raises TypeError
UndefinedNew(source, cursor) == Err("TypeError")

\* TKey.get(): the value and the key after the call
KeyGet(key) ==
    IF key.fClassName = "TDirectory"
    THEN LET r == DirRead(key.source, key.cursor, key)
         IN [val |-> r.val, key |-> [key EXCEPT !.cursor = r.cursor]]
    ELSE IF key.fClassName \in context.classes
    THEN [val |-> ClassRead(key.fClassName, key.source, key.cursor), key |-> key]
    ELSE [val |-> UndefinedNew(key.source, key.cursor), key |-> key]

----------------------------------------------------------------------------
(* ROOTDirectory.get *)

\* a scan that compares the name and not the cycle
RECURSIVE ScanAnyCycle(_, _, _, _)
ScanAnyCycle(ks, i, name, cycle) ==
    IF i > Len(ks) THEN [val |-> Err("KeyError"), keys |-> ks]
    ELSE IF ks[i].fName = name
    THEN LET g == KeyGet(ks[i])
         IN [val |-> g.val, keys |-> [ks EXCEPT ![i] = g.key]]
    ELSE ScanAnyCycle(ks, i + 1, name, cycle)

\* the scan of ROOTDirectory.get: for key in self._keys, from position i on
RECURSIVE Scan(_, _, _, _)
Scan(ks, i, name, cycle) ==
    IF i > Len(ks) THEN [val |-> Err("KeyError"), keys |-> ks]
    ELSE IF ks[i].fName = name /\ (cycle = None \/ ks[i].fCycle = cycle[1])
    THEN LET g == KeyGet(ks[i])
         IN [val |-> g.val, keys |-> [ks EXCEPT ![i] = g.key]]
    ELSE Scan(ks, i + 1, name, cycle)

\* ROOTDirectory.get, the branch of a name without '/': the value, and the
\* directory's keys after the call
GetSimple(ks, name, cycle) ==
    IF cycle = None /\ Contains(name, Semi)
    THEN LET at   == RIndex(name, Semi)
             tail == SubSeq(name, at + 1, Len(name))
         IN IF IsDecimal(tail)
            THEN Scan(ks, 1, SubSeq(name, 1, at - 1), <<ParseInt(tail)>>)
            ELSE [val |-> Err("ValueError"), keys |-> ks]
    ELSE Scan(ks, 1, name, cycle)

\* out = out.get(n, cycle) for the segments after the first: out is a value
\* the walk made, and only a directory has a get
RECURSIVE WalkRest(_, _, _, _)
WalkRest(out, segs, i, cycle) ==
    IF i > Len(segs) THEN out
    ELSE IF out.kind # "dir" THEN Err("AttributeError")
    ELSE LET r == GetSimple(out.keys, segs[i], cycle)
         IN IF IsErr(r.val) THEN r.val ELSE WalkRest(r.val, segs, i + 1, cycle)

\* ROOTDirectory.get(name, cycle) on the directory whose keys are ks
Get(ks, name, cycle) ==
    IF Contains(name, Slash)
    THEN LET segs  == Split(name)
             first == GetSimple(ks, segs[1], cycle)
         IN IF IsErr(first.val) THEN first
            ELSE [val |-> WalkRest(first.val, segs, 2, cycle), keys |-> first.keys]
    ELSE GetSimple(ks, name, cycle)

----------------------------------------------------------------------------
(* ROOTDirectory.keys, values, items, classes *)

\* ROOTDirectory._withcycle
WithCycle(key) == key.fName \o <<Semi>> \o Decimal(key.fCycle)

NoVal == [kind |-> "none"]

\* what one iteration yields for its own key: v is key.get() where the
\* generator calls it
Yield(kind, key, v) ==
    CASE kind = "keys"    -> [name |-> WithCycle(key), cls |-> "", val |-> NoVal]
      [] kind = "classes" -> [name |-> WithCycle(key), cls |-> key.fClassName, val |-> NoVal]
      [] kind = "values"  -> [name |-> <<>>, cls |-> "", val |-> v]
      [] kind = "items"   -> [name |-> WithCycle(key), cls |-> "", val |-> v]

\* a prefix made of the key's name alone
NestedByName(kind, key, item) ==
    IF kind = "values" THEN item
    ELSE [item EXCEPT !.name = key.fName \o <<Slash>> \o @]

\* "{0}/{1}".format(self._withcycle(key), name): what is yielded for a key
\* of a sub-directory
Nested(kind, key, item) ==
    IF kind = "values" THEN item
    ELSE [item EXCEPT !.name = WithCycle(key) \o <<Slash>> \o @]

CallsGet(kind) == kind \in {"values", "items"}

\* the generator run to its end (or to the exception that ends it), from the
\* key at position i on: what it yielded, the exception, the keys afterwards
RECURSIVE List(_, _, _, _, _, _)
List(kind, ks, i, recursive, filtername, filterclass) ==
    IF i > Len(ks) THEN [items |-> <<>>, err |-> NoErr, keys |-> ks]
    ELSE
    LET key    == ks[i]
        passes == key.fName \in filtername /\ key.fClassName \in filterclass
        g1     == KeyGet(key)
        key1   == IF passes /\ CallsGet(kind) THEN g1.key ELSE key
        own    == IF passes THEN <<Yield(kind, key, g1.val)>> ELSE <<>>
        g2     == KeyGet(key1)
        sub    == List(kind, g2.val.keys, 1, recursive, filtername, filterclass)
        inner  == [j \in 1..Len(sub.items) |-> Nested(kind, key, sub.items[j])]
    IN  IF passes /\ CallsGet(kind) /\ IsErr(g1.val)
        THEN [items |-> <<>>, err |-> g1.val.err, keys |-> [ks EXCEPT ![i] = key1]]
        ELSE IF recursive /\ key.fClassName = "TDirectory"
        THEN IF IsErr(g2.val)
             THEN [items |-> own, err |-> g2.val.err, keys |-> [ks EXCEPT ![i] = g2.key]]
             ELSE IF sub.err # NoErr
             THEN [items |-> own \o inner, err |-> sub.err,
                   keys |-> [ks EXCEPT ![i] = g2.key]]
             ELSE LET rest == List(kind, [ks EXCEPT ![i] = g2.key], i + 1,
                                   recursive, filtername, filterclass)
                  IN [items |-> own \o inner \o rest.items, err |-> rest.err,
                      keys |-> rest.keys]
        ELSE LET rest == List(kind, [ks EXCEPT ![i] = key1], i + 1,
                              recursive, filtername, filterclass)
             IN [items |-> own \o rest.items, err |-> rest.err, keys |-> rest.keys]

Names(items) == [j \in 1..Len(items) |-> items[j].name]

----------------------------------------------------------------------------
(* The files read *)

nSub == <<"s", "u", "b">>
nH   == <<"h">>
nG   == <<"g">>
nA   == <<"a">>
nB   == <<"b">>
nT   == <<"t">>
nC   == <<"c">>
nZ   == <<"z">>

\* a stored key record
Desc(cls, name, cycle, seekkey, keylen, nbytes, objlen) ==
    [fClassName |-> cls, fName |-> name, fCycle |-> cycle, fSeekKey |-> seekkey,
     fKeylen |-> keylen, fNbytes |-> nbytes, fObjlen |-> objlen]

kSub1 == Desc("TDirectory", nSub, 1, 150, 50, 110, 60)
kSub2 == Desc("TDirectory", nSub, 2, 250, 50, 110, 60)
kH1   == Desc("TNamed", nH, 1, 400, 40, 70, 30)
kG1   == Desc("TH1F", nG, 1, 600, 40, 80, 40)
kA1   == Desc("TNamed", nA, 1, 700, 40, 70, 30)
kB1   == Desc("TNamed", nB, 1, 800, 40, 60, 90)
kA2   == Desc("TH1F", nA, 2, 900, 40, 80, 40)
kT1   == Desc("TDirectory", nT, 1, 250, 50, 110, 60)
kT2   == Desc("TDirectory", nT, 2, 250, 50, 110, 60)
kC12  == Desc("TNamed", nC, 12, 1000, 40, 70, 30)

RootPool == {kSub1, kSub2, kH1, kG1}

RootLists == UNION {[1..n -> RootPool] : n \in 1..MaxKeys}

SubLists == {<<kA1, kB1>>, <<kT1, kA1>>, <<kA2, kA1>>, <<kA1, kT1, kB1>>, <<kT2, kA1>>}

\* the root directory's record is at 100; two more directory records are at
\* 200 (32-bit seeks) and 300 (64-bit seeks)
Files ==
    {[junk |-> j,
      dirs |-> (100 :> [fVersion |-> 5, keys |-> r])
            @@ (200 :> [fVersion |-> 5, keys |-> s])
            @@ (300 :> [fVersion |-> 1005, keys |-> <<kC12>>])] :
        j \in {"raise", "dir"}, r \in RootLists, s \in SubLists}

\* the classes of _defineclasses' map for these files: no streamer info
\* describes TH1F
DefinedClasses ==
    {"TObject", "TNamed", "TString", "TObjArray", "TList", "TArrayC", "TArrayS",
     "TArrayI", "TArrayL", "TArrayL64", "TArrayF", "TArrayD"}

----------------------------------------------------------------------------
(* The calls made *)

P(a, b) == a \o <<Slash>> \o b
V(n, c) == n \o <<Semi>> \o c

AllNames == {nSub, nH, nG, nA, nB, nT, nC}
AllClasses == {"TDirectory", "TNamed", "TH1F"}

Range(s) == {s[i] : i \in 1..Len(s)}

\* the calls dir.get(name, cycle) made
GetArgs ==
    {<<n, None>> :
        n \in {nH, V(nH, <<"1">>), V(nH, <<"9">>), V(nH, <<"0", "1">>),
               V(V(nH, <<"1">>), <<"1">>), V(nH, <<>>), nG, nSub, V(nSub, <<"2">>),
               P(nSub, V(nA, <<"1">>)), P(nSub, V(nA, <<"2">>)), P(nSub, nZ),
               P(nH, nA), P(nSub, P(nT, V(nC, <<"1", "2">>)))}
              \cup Range(listed)}
    \cup {<<nH, <<1>>>>, <<V(nH, <<"2">>), <<1>>>>, <<nSub, <<2>>>>,
          <<P(nSub, nA), <<1>>>>, <<P(nSub, nA), <<2>>>>,
          <<P(nSub, P(nT, nC)), <<1>>>>, <<P(nSub, P(nT, nC)), <<12>>>>}

ListKinds == {"keys", "values", "items", "classes"}

\* the listings made: kind, recursive, filtername, filterclass
ListArgs ==
    {<<k, TRUE, AllNames, AllClasses>> : k \in ListKinds}
    \cup {<<"keys", FALSE, AllNames, AllClasses>>,
          <<"keys", TRUE, {nA}, AllClasses>>,
          <<"keys", TRUE, AllNames, {"TNamed", "TH1F"}>>,
          <<"classes", TRUE, {nA, nC}, {"TNamed", "TH1F"}>>,
          <<"values", FALSE, AllNames, {"TNamed", "TDirectory"}>>,
          <<"items", TRUE, AllNames, {"TNamed"}>>}

\* the cursor TKey._readinto gave the key
InitialCursor(key) == TKeyRead(key).cursor

\* the key after n calls of its get() since TKey._readinto made it
RECURSIVE AfterGets(_, _)
AfterGets(key, n) ==
    IF n = 0 THEN [key EXCEPT !.cursor = InitialCursor(key)]
    ELSE KeyGet(AfterGets(key, n - 1)).key

\* no key's get() has been called more than MaxReads times
Capped(ks) ==
    \A i \in 1..Len(ks) :
        {n \in 0..MaxReads : AfterGets(ks[i], n).cursor = ks[i].cursor} # {}

----------------------------------------------------------------------------
(* Framed records and tagged references *)

MaxElems == 3

\* a 32-bit word: bit 31 (kClassMask), bit 30 (kByteCountMask), the low 30 bits
Low30 == 1073741823
W(cls, bc, low) == [cls |-> cls, bc |-> bc, low |-> low]
kNewClassTag == W(TRUE, TRUE, Low30)
kMapOffset == 2

\* the integer a word with bit 31 clear stands for
Value(w) == w.low + (IF w.bc THEN Low30 + 1 ELSE 0)

\* the fields of a record, each with the number of bytes it takes
U32(w) == [t |-> "u32", w |-> w, n |-> 4]
CStr(s, n) == [t |-> "cstr", s |-> s, n |-> n]
\* the header of a framed record: the count word, stored with the
\* kByteCountMask flag, and the version
Hdr(low, vers) == [t |-> "hdr", w |-> W(FALSE, TRUE, low), vers |-> vers, n |-> 6]
Bytes(n) == [t |-> "bytes", n |-> n]

\* the bytes the fields a..b take
RECURSIVE Span(_, _, _)
Span(toks, a, b) ==
    IF a > b THEN 0
    ELSE IF a = b THEN toks[a].n
    ELSE Span(toks, a, (a + b) \div 2) + Span(toks, (a + b) \div 2 + 1, b)

\* the first of the fields a..b that starts at byte index, 0 when none
\* does; field a starts at off
RECURSIVE Find(_, _, _, _, _)
Find(toks, a, b, off, index) ==
    IF a > b \/ off > index THEN 0
    ELSE IF off = index THEN a
    ELSE IF a = b THEN 0
    ELSE LET m == (a + b) \div 2
             s == off + Span(toks, a, m)
         IN IF s < index THEN Find(toks, m + 1, b, s, index)
            ELSE Find(toks, a + 1, m + 1, off + toks[a].n, index)

\* the field of the source that starts at byte index, 0 when none does
Locate(source, i, off, index) == Find(source.toks, i, Len(source.toks), off, index)

\* cursor.field / fields / cstring / bytes: the field of kind t at index and
\* the index after it; a read outside the data fails in struct.unpack
FieldAt(source, i, index, t) ==
    IF i = 0 THEN [ok |-> FALSE]
    ELSE IF source.toks[i].t # t THEN [ok |-> FALSE]
    ELSE [ok |-> TRUE, tok |-> source.toks[i], index |-> index + source.toks[i].n]

Field(source, index, t) ==
    FieldAt(source, Locate(source, 1, source.base, index), index, t)

Raise(e, cursor) == [val |-> Err(e), err |-> e, cursor |-> cursor]
Return(v, cursor) == [val |-> v, err |-> NoErr, cursor |-> cursor]

\* a _startcheck that leaves the flag in the count
StartCheckUnmasked(source, cursor) ==
    LET f == Field(source, cursor.index, "hdr")
    IN IF ~f.ok THEN [ok |-> FALSE]
       ELSE [ok |-> TRUE, start |-> cursor.index, cnt |-> Value(f.tok.w) + 4,
             vers |-> f.tok.vers, cursor |-> [cursor EXCEPT !.index = f.index]]

\* _startcheck: start, cnt + 4 with the kByteCountMask flag cleared, vers
StartCheck(source, cursor) ==
    LET f == Field(source, cursor.index, "hdr")
    IN IF ~f.ok THEN [ok |-> FALSE]
       ELSE [ok |-> TRUE, start |-> cursor.index,
             cnt |-> Value([f.tok.w EXCEPT !.bc = FALSE]) + 4,
             vers |-> f.tok.vers, cursor |-> [cursor EXCEPT !.index = f.index]]

\* _endcheck: the error it raises, if any
EndCheck(start, cursor, cnt) ==
    IF cursor.index - start # cnt THEN "ValueError" ELSE NoErr

\* Undefined._readinto(source, cursor, context), called with its three
\* parameters
UndefinedReadinto(source, cursor) ==
    LET sc == StartCheck(source, cursor)
    IN IF ~sc.ok THEN Raise("struct.error", cursor)
       ELSE LET c == [sc.cursor EXCEPT !.index = @ + (sc.cnt - 2)]
                e == EndCheck(sc.start, c, sc.cnt)
            IN IF e # NoErr THEN Raise(e, c) ELSE Return([kind |-> "undefined"], c)

\* a factory: a class of the class map, or Undefined
Factory(cname) == [kind |-> "class", name |-> cname]
Null == [kind |-> "null"]

RECURSIVE ReadAnyRef(_, _, _)

\* [_readanyref(source, cursor, context) for i in range(n)]
RECURSIVE ReadItems(_, _, _, _)
ReadItems(source, cursor, classes, n) ==
    IF n <= 0 THEN Return(Null, cursor)
    ELSE LET r == ReadAnyRef(source, cursor, classes)
         IN IF r.err # NoErr THEN r
            ELSE ReadItems(source, r.cursor, classes, n - 1)

\* TObjArray._readinto: the framing header, _skiptobj and name, size and low,
\* the items, _endcheck; the object is told by where it starts
TObjArrayReadinto(source, cursor, classes) ==
    LET sc == StartCheck(source, cursor)
    IN IF ~sc.ok THEN Raise("struct.error", cursor)
       ELSE
       LET b == Field(source, sc.cursor.index, "bytes")
       IN IF ~b.ok THEN Raise("struct.error", sc.cursor)
          ELSE
          LET z == Field(source, b.index, "u32")
          IN IF ~z.ok THEN Raise("struct.error", [sc.cursor EXCEPT !.index = b.index])
             ELSE
             LET l == Field(source, z.index, "u32")
             IN IF ~l.ok THEN Raise("struct.error", [sc.cursor EXCEPT !.index = b.index])
                ELSE
                LET r == ReadItems(source, [sc.cursor EXCEPT !.index = l.index],
                                   classes, Value(z.tok.w))
                IN IF r.err # NoErr THEN r
                   ELSE LET e == EndCheck(sc.start, r.cursor, sc.cnt)
                        IN IF e # NoErr THEN Raise(e, r.cursor)
                           ELSE Return([kind |-> "obj", cls |-> "TObjArray",
                                        at |-> sc.start], r.cursor)

\* cls._readinto of a class of the class map: the framing header, the fields
\* of the class, _endcheck
ClassReadinto(cls, source, cursor, classes) ==
    IF cls = "TObjArray" THEN TObjArrayReadinto(source, cursor, classes)
    ELSE
    LET sc == StartCheck(source, cursor)
    IN IF ~sc.ok THEN Raise("struct.error", cursor)
       ELSE LET b == Field(source, sc.cursor.index, "bytes")
            IN IF ~b.ok THEN Raise("struct.error", sc.cursor)
               ELSE LET c == [sc.cursor EXCEPT !.index = b.index]
                        e == EndCheck(sc.start, c, sc.cnt)
                    IN IF e # NoErr THEN Raise(e, c)
                       ELSE Return([kind |-> "obj", cls |-> cls, at |-> sc.start], c)

\* context.classes.get(cname, Undefined)
ClassesGet(classes, cname) ==
    IF cname \in classes THEN Factory(cname) ELSE Factory("Undefined")

\* fct.read(source, cursor, context): ROOTObject.read calls
\* cls._readinto(out, source, cursor, context), four arguments; Undefined's
\* _readinto takes three
FctRead(fct, source, cursor, classes) ==
    IF fct.name = "Undefined" THEN Raise("TypeError", cursor)
    ELSE ClassReadinto(fct.name, source, cursor, classes)

\* cursor.refs[k] = v
SetRef(cursor, k, v) == [cursor EXCEPT !.refs = (k :> v) @@ @]
RefsLen(cursor) == Cardinality(DOMAIN cursor.refs)

\* the object entered under where the cursor stands once it is read
RegisteredAtEnd(r, vers, beg) ==
    IF r.err # NoErr THEN r
    ELSE Return(r.val, SetRef(r.cursor,
                              IF vers > 0
                              THEN r.cursor.index - r.cursor.origin + kMapOffset
                              ELSE RefsLen(r.cursor) + 1, r.val))

\* register the object just read under beg + kMapOffset or len(refs) + 1
Registered(r, vers, beg) ==
    IF r.err # NoErr THEN r
    ELSE Return(r.val, SetRef(r.cursor,
                              IF vers > 0 THEN beg + kMapOffset
                              ELSE RefsLen(r.cursor) + 1, r.val))

\* a reference that also enters what it returns in the ref table
ReadReferenceRegistering(cursor, tag, beg, bcnt) ==
    IF Value(tag) \in DOMAIN cursor.refs
    THEN Return(cursor.refs[Value(tag)],
                SetRef(cursor, RefsLen(cursor) + 1, cursor.refs[Value(tag)]))
    ELSE Return(Null, cursor)

\* a reference whose jump leaves out the record's offset
ReadReferenceFromOrigin(cursor, tag, beg, bcnt) ==
    IF Value(tag) = 0 THEN Return(Null, cursor)
    ELSE IF Value(tag) = 1 THEN Raise("NotImplementedError", cursor)
    ELSE IF Value(tag) \notin DOMAIN cursor.refs
         THEN Return(Null, [cursor EXCEPT !.index = cursor.origin + bcnt + 4])
    ELSE Return(cursor.refs[Value(tag)], cursor)

\* _readanyref, tag & kClassMask == 0: a reference
ReadReference(cursor, tag, beg, bcnt) ==
    IF Value(tag) = 0 THEN Return(Null, cursor)
    ELSE IF Value(tag) = 1 THEN Raise("NotImplementedError", cursor)
    ELSE IF Value(tag) \notin DOMAIN cursor.refs
         THEN Return(Null, [cursor EXCEPT !.index = cursor.origin + beg + bcnt + 4])
    ELSE Return(cursor.refs[Value(tag)], cursor)

\* _readanyref, tag == kNewClassTag: new class and object
ReadNewClass(source, cursor, classes, vers, start, beg) ==
    LET f == Field(source, cursor.index, "cstr")
    IN IF ~f.ok THEN Raise("struct.error", cursor)
       ELSE LET fct == ClassesGet(classes, f.tok.s)
                c == SetRef([cursor EXCEPT !.index = f.index],
                            IF vers > 0 THEN start + kMapOffset
                            ELSE RefsLen(cursor) + 1, fct)
            IN Registered(FctRead(fct, source, c, classes), vers, beg)

\* _readanyref, otherwise: reference class, new object
ReadKnownClass(source, cursor, classes, tag, vers, beg) ==
    LET ref == Value([tag EXCEPT !.cls = FALSE])
    IN IF ref \notin DOMAIN cursor.refs THEN Raise("IOError", cursor)
       ELSE LET fct == cursor.refs[ref]
            IN IF ~(fct.kind = "class" /\ fct.name \in classes)
               THEN Raise("IOError", cursor)
               ELSE Registered(FctRead(fct, source, cursor, classes), vers, beg)

\* _readanyref(source, cursor, context): the value returned or the error
\* raised, and the cursor afterwards
ReadAnyRef(source, cursor, classes) ==
    LET beg == cursor.index - cursor.origin
        f1 == Field(source, cursor.index, "u32")
    IN IF ~f1.ok THEN Raise("struct.error", cursor)
       ELSE
       LET unframed == ~f1.tok.w.bc \/ f1.tok.w = kNewClassTag
           vers == IF unframed THEN 0 ELSE 1
           start == IF unframed THEN 0 ELSE f1.index - cursor.origin
           f2 == IF unframed THEN f1 ELSE Field(source, f1.index, "u32")
       IN IF ~f2.ok THEN Raise("struct.error", [cursor EXCEPT !.index = f1.index])
          ELSE
          LET tag == f2.tok.w
              bcnt == IF unframed THEN 0 ELSE Value(f1.tok.w)
              c == [cursor EXCEPT !.index = f2.index]
          IN IF ~tag.cls THEN ReadReference(c, tag, beg, bcnt)
             ELSE IF tag = kNewClassTag
                  THEN ReadNewClass(source, c, classes, vers, start, beg)
             ELSE ReadKnownClass(source, c, classes, tag, vers, beg)

----------------------------------------------------------------------------
(* The containers read *)

\* the bytes of one object of a class after its tag: framing header and fields
BodyLen(cname) == IF cname = "TNamed" THEN 12 ELSE 20
NameLen(cname) ==
    CASE cname = "TNamed" -> 7
      [] cname = "TStreamerInfo" -> 14
      [] cname = "TObjArray" -> 10
      [] OTHER -> 5
Payload(cname) ==
    IF cname = "TObjArray"
    THEN <<Hdr(BodyLen(cname) + 2, 1), Bytes(BodyLen(cname) - 8),
           U32(W(FALSE, FALSE, 0)), U32(W(FALSE, FALSE, 0))>>
    ELSE <<Hdr(BodyLen(cname) + 2, 1), Bytes(BodyLen(cname))>>
PayloadLen(cname) == 6 + BodyLen(cname)

\* a reference tag no record registers
LostTag == 999999
LostLen == 8

\* the classes of the objects written
ElemClasses == {"TNamed", "TH1F", "TStreamerInfo", "TObjArray"}

\* the elements a container may hold
ElemKinds ==
    {[k |-> "null"], [k |-> "ref"]}
    \cup [k : {"lost"}, framed : BOOLEAN]
    \cup [k : {"new", "known"}, framed : BOOLEAN, c : {"TNamed", "TH1F"}]
    \cup [k : {"nest"}, framed : BOOLEAN, inframed : BOOLEAN]

\* the element e written at offset st.off (from the cursor's origin) after
\* st.toks: st.n entries registered so far, st.ctag[c] the tag of class c and
\* st.otag the tag of the first object (0: none yet)
Written(e, st) ==
    IF e.k = "null" THEN
        [st EXCEPT !.toks = @ \o <<U32(W(FALSE, FALSE, 0))>>, !.off = @ + 4]
    ELSE IF e.k = "ref" THEN
        [st EXCEPT !.toks = @ \o <<U32(W(FALSE, FALSE, st.otag))>>, !.off = @ + 4,
                   !.ok = @ /\ st.otag # 0]
    ELSE IF e.k = "lost" THEN
        IF e.framed
        THEN [st EXCEPT !.toks = @ \o <<U32(W(FALSE, TRUE, 4 + LostLen)),
                                        U32(W(FALSE, FALSE, LostTag)), Bytes(LostLen)>>,
                        !.off = @ + 8 + LostLen]
        ELSE [st EXCEPT !.toks = @ \o <<U32(W(FALSE, FALSE, LostTag))>>, !.off = @ + 4]
    ELSE IF e.k = "new" THEN
        IF e.framed
        THEN [st EXCEPT
                !.toks = @ \o <<U32(W(FALSE, TRUE, 4 + NameLen(e.c) + PayloadLen(e.c))),
                                U32(kNewClassTag), CStr(e.c, NameLen(e.c))>>
                           \o Payload(e.c),
                !.off = @ + 8 + NameLen(e.c) + PayloadLen(e.c),
                !.n = @ + 2,
                !.ctag[e.c] = IF @ = 0 THEN st.off + 4 + kMapOffset ELSE @,
                !.otag = IF @ = 0 THEN st.off + kMapOffset ELSE @]
        ELSE [st EXCEPT
                !.toks = @ \o <<U32(kNewClassTag), CStr(e.c, NameLen(e.c))>>
                           \o Payload(e.c),
                !.off = @ + 4 + NameLen(e.c) + PayloadLen(e.c),
                !.n = @ + 2,
                !.ctag[e.c] = IF @ = 0 THEN st.n + 1 ELSE @,
                !.otag = IF @ = 0 THEN st.n + 2 ELSE @]
    ELSE
        IF e.framed
        THEN [st EXCEPT
                !.toks = @ \o <<U32(W(FALSE, TRUE, 4 + PayloadLen(e.c))),
                                U32(W(TRUE, FALSE, st.ctag[e.c]))>> \o Payload(e.c),
                !.off = @ + 8 + PayloadLen(e.c),
                !.n = @ + 1,
                !.otag = IF @ = 0 THEN st.off + kMapOffset ELSE @,
                !.ok = @ /\ st.ctag[e.c] # 0]
        ELSE [st EXCEPT
                !.toks = @ \o <<U32(W(TRUE, FALSE, st.ctag[e.c]))>> \o Payload(e.c),
                !.off = @ + 4 + PayloadLen(e.c),
                !.n = @ + 1,
                !.otag = IF @ = 0 THEN st.n + 1 ELSE @,
                !.ok = @ /\ st.ctag[e.c] # 0]

\* the element "nest": a TObjArray of a new class holding one TNamed of a
\* new (or the known) class, each with or without a byte count
WrittenNested(e, st) ==
    LET c == "TObjArray"
        lead == IF e.framed THEN 8 ELSE 4
        s1 == [st EXCEPT
                 !.toks = <<>>,
                 !.off = @ + lead + NameLen(c) + 6 + (BodyLen(c) - 8) + 8,
                 !.n = @ + 1,
                 !.ctag[c] = IF @ # 0 THEN @
                             ELSE IF e.framed THEN st.off + 4 + kMapOffset
                             ELSE st.n + 1]
        s2 == Written([k |-> IF st.ctag["TNamed"] = 0 THEN "new" ELSE "known",
                       framed |-> e.inframed, c |-> "TNamed"], s1)
        inner == s2.off - s1.off
        body == <<Hdr(BodyLen(c) + 2 + inner, 1), Bytes(BodyLen(c) - 8),
                  U32(W(FALSE, FALSE, 1)), U32(W(FALSE, FALSE, 0))>>
        head == IF e.framed
                THEN <<U32(W(FALSE, TRUE, 4 + NameLen(c) + PayloadLen(c) + inner)),
                       U32(kNewClassTag), CStr(c, NameLen(c))>>
                ELSE <<U32(kNewClassTag), CStr(c, NameLen(c))>>
    IN [s2 EXCEPT !.toks = st.toks \o head \o body \o s2.toks, !.n = @ + 1]

RECURSIVE WrittenAll(_, _, _)
WrittenAll(elems, i, st) ==
    IF i > Len(elems) THEN st
    ELSE WrittenAll(elems, i + 1,
                    IF elems[i].k = "nest" THEN WrittenNested(elems[i], st)
                    ELSE Written(elems[i], st))

\* the bytes of a TList before its elements: framing header, TObject and name,
\* size
ListHeadLen == 21
ListHead(elems, len) ==
    <<Hdr(len - 4, 5), Bytes(11), U32(W(FALSE, FALSE, Len(elems)))>>

\* the TList holding elems, as the payload of a key: base is where it starts
\* in the source and origin the cursor's origin
ListRecord(elems, base, origin) ==
    LET st == WrittenAll(elems, 1,
                         [toks |-> <<>>, off |-> base - origin + ListHeadLen, n |-> 0,
                          ctag |-> [c \in ElemClasses |-> 0], otag |-> 0,
                          ok |-> TRUE])
        len == st.off - (base - origin)
    IN [base |-> base, origin |-> origin, elems |-> elems, ok |-> st.ok,
        toks |-> ListHead(elems, len) \o st.toks]

ElemLists == UNION {[1..n -> ElemKinds] : n \in 1..MaxElems}

\* a key's payload read from the file (fSeekKey 1000, fKeylen 40) or from its
\* decompressed bytes
Origins == {<<1040, 1000>>, <<0, -40>>}

Records ==
    {r \in {ListRecord(es, o[1], o[2]) : es \in ElemLists, o \in Origins} : r.ok}

MaxGets == 2

\* Cursor.copied(): a snapshot of the position, with a ref table of its own
Copied(cursor) == [index |-> cursor.index, origin |-> cursor.origin, refs |-> <<>>]

\* the cursor TKey._readinto stores in the key of a record
KeyCursor(record) == [index |-> record.base, origin |-> record.origin, refs |-> <<>>]

\* a get() that reads through the cursor the last read used
GetCursorShared(keycursor, last) == last

\* TKey.get() of a key of a class of the class map: the cursor the read is
\* given; last is the cursor the read before it used
GetCursor(keycursor, last) == Copied(keycursor)

InitRef ==
    /\ file = [junk |-> "raise", dirs |-> <<>>]
    /\ keys = <<>>
    /\ context = [classes |-> DefinedClasses]
    /\ listed = <<>>
    /\ ret = [op |-> "get", n |-> 1]
    /\ stream \in Records
    /\ cur = GetCursor(KeyCursor(stream), KeyCursor(stream))
    /\ got = <<>>
    /\ pc = [at |-> "start"]
    /\ boot = [at |-> "idle"]
    /\ events = <<>>

\* TList._readinto before its loop: _startcheck, _skiptobj and name, size
ListHeadRead(source, cursor) ==
    LET sc == StartCheck(source, cursor)
    IN IF ~sc.ok THEN [err |-> "struct.error", cursor |-> cursor]
       ELSE LET b == Field(source, sc.cursor.index, "bytes")
            IN IF ~b.ok THEN [err |-> "struct.error", cursor |-> sc.cursor]
               ELSE LET z == Field(source, b.index, "u32")
                    IN IF ~z.ok
                       THEN [err |-> "struct.error",
                             cursor |-> [cursor EXCEPT !.index = b.index]]
                       ELSE [err |-> NoErr, cursor |-> [cursor EXCEPT !.index = z.index],
                             start |-> sc.start, cnt |-> sc.cnt, size |-> Value(z.tok.w)]

\* TList._readinto up to its loop
ListStart ==
    /\ pc.at = "start"
    /\ \E h \in {ListHeadRead(stream, cur)} :
          /\ cur' = h.cursor
          /\ pc' = IF h.err # NoErr THEN [at |-> "raised", err |-> h.err, elem |-> 0]
                   ELSE [at |-> "elements", start |-> h.start, cnt |-> h.cnt,
                         size |-> h.size]
    /\ UNCHANGED <<dvars, ovars, stream, got>>

\* one _readanyref of the loop
ListElement ==
    /\ pc.at = "elements"
    /\ Len(got) < pc.size
    /\ \E r \in {ReadAnyRef(stream, cur, context.classes)} :
          /\ cur' = r.cursor
          /\ IF r.err # NoErr
             THEN /\ pc' = [at |-> "raised", err |-> r.err, elem |-> Len(got) + 1]
                  /\ got' = got
             ELSE /\ pc' = pc
                  /\ got' = Append(got, r.val)
    /\ UNCHANGED <<dvars, ovars, stream>>

\* the loop is over: extend, _endcheck
ListEnd ==
    /\ pc.at = "elements"
    /\ Len(got) = pc.size
    /\ \E e \in {EndCheck(pc.start, cur, pc.cnt)} :
          pc' = IF e # NoErr THEN [at |-> "raised", err |-> e, elem |-> 0]
                ELSE [at |-> "done"]
    /\ UNCHANGED <<dvars, ovars, stream, cur, got>>

\* the next get() of the same key, once the read has returned or raised
GetAgain ==
    /\ pc.at \in {"done", "raised"}
    /\ ret.op = "get"
    /\ ret.n < MaxGets
    /\ cur' = GetCursor(KeyCursor(stream), cur)
    /\ got' = <<>>
    /\ pc' = [at |-> "start"]
    /\ ret' = [ret EXCEPT !.n = @ + 1]
    /\ UNCHANGED <<file, keys, context, listed, ovars, stream>>

NextRef == ListStart \/ ListElement \/ ListEnd \/ GetAgain

SpecRef == InitRef /\ [][NextRef]_vars

----------------------------------------------------------------------------
(* The state machine *)

Init ==
    /\ file \in Files
    /\ keys = ReadKeys(file.dirs[100].keys)
    /\ context = [classes |-> DefinedClasses]
    /\ listed = <<>>
    /\ ret = [op |-> "open"]
    /\ stream = [base |-> 0, origin |-> 0, elems |-> <<>>, ok |-> TRUE, toks |-> <<>>]
    /\ cur = [index |-> 0, origin |-> 0, refs |-> <<>>]
    /\ got = <<>>
    /\ pc = [at |-> "idle"]
    /\ boot = [at |-> "idle"]
    /\ events = <<>>

\* dir.get(name, cycle)
GetCall(name, cycle) ==
    \E r \in {Get(keys, name, cycle)} :
       /\ Capped(r.keys)
       /\ keys' = r.keys
       /\ ret' = [op |-> "get", name |-> name, cycle |-> cycle, val |-> r.val]
       /\ UNCHANGED <<file, context, listed, rvars, ovars>>

\* dir._keys[i].get()
KeyGetCall(i) ==
    \E g \in {KeyGet(keys[i])} :
       /\ Capped([keys EXCEPT ![i] = g.key])
       /\ keys' = [keys EXCEPT ![i] = g.key]
       /\ ret' = [op |-> "key", i |-> i, val |-> g.val]
       /\ UNCHANGED <<file, context, listed, rvars, ovars>>

\* list(dir.keys(...)), values, items, classes; allkeys() is keys(True)
ListCall(kind, recursive, filtername, filterclass) ==
    \E r \in {List(kind, keys, 1, recursive, filtername, filterclass)} :
       /\ Capped(r.keys)
       /\ keys' = r.keys
       /\ ret' = [op |-> kind, recursive |-> recursive, filtername |-> filtername,
                  filterclass |-> filterclass, items |-> r.items, err |-> r.err]
       /\ listed' = IF kind = "keys" /\ recursive /\ filtername = AllNames
                       /\ filterclass = AllClasses
                    THEN Names(r.items) ELSE listed
       /\ UNCHANGED <<file, context, rvars, ovars>>

Next ==
    \/ \E a \in GetArgs : GetCall(a[1], a[2])
    \/ \E i \in 1..Len(keys) : KeyGetCall(i)
    \/ \E a \in ListArgs : ListCall(a[1], a[2], a[3], a[4])

Spec == Init /\ [][Next]_vars

----------------------------------------------------------------------------
(* Name resolution: C1, C2, C3 *)

\* what key.get() reads now, the key left as it is
View(key) == KeyGet(key).val

Semis(name) == {i \in 1..Len(name) : name[i] = Semi}

Max(S) == CHOOSE x \in S : \A y \in S : y <= x
Min(S) == CHOOSE x \in S : \A y \in S : x <= y

\* the name and the cycle a get of a name without '/' asks for
AskedName(name, cycle) ==
    IF cycle = None /\ Semis(name) # {}
    THEN SubSeq(name, 1, Max(Semis(name)) - 1) ELSE name

AskedTail(name) == SubSeq(name, Max(Semis(name)) + 1, Len(name))

AskedCycle(name, cycle) ==
    IF cycle = None /\ Semis(name) # {}
    THEN <<ParseInt(AskedTail(name))>> ELSE cycle

\* the positions of the keys of ks with that name and, if one is asked, cycle
Matching(ks, n, c) ==
    {i \in 1..Len(ks) : ks[i].fName = n /\ (c = None \/ ks[i].fCycle = c[1])}

\* C2: a get of a name without '/' returns what the get() of the first key
\* in stored order returns whose fName is the name and, when a cycle is given
\* (as argument, or as the decimal after the last ';'), whose fCycle is that
\* cycle; with no such key it fails with KeyError.
C2_FirstMatchOrKeyError ==
    [][(/\ ret'.op = "get"
        /\ ~Contains(ret'.name, Slash)
        /\ (ret'.cycle = None /\ Semis(ret'.name) # {}) => IsDecimal(AskedTail(ret'.name)))
       => LET n == AskedName(ret'.name, ret'.cycle)
              c == AskedCycle(ret'.name, ret'.cycle)
              M == Matching(keys, n, c)
          IN ret'.val = IF M = {} THEN Err("KeyError") ELSE View(keys[Min(M)])
      ]_vars

\* get("sub;2") skipped the key sub of cycle 1 stored first and returned the
\* directory of the key sub of cycle 2
C2_Witness ==
    /\ ret.op = "get"
    /\ ret.name = V(nSub, <<"2">>)
    /\ ret.cycle = None
    /\ Len(keys) = 2 /\ keys[1].fName = nSub /\ keys[1].fCycle = 1
    /\ keys[2].fName = nSub /\ keys[2].fCycle = 2
    /\ ret.val.kind = "dir"
    /\ Len(ret.val.keys) = 1 /\ ret.val.keys[1].fName = nC

\* get("h;9") with a key h, and none of cycle 9, failed with KeyError
C2_WitnessNotFound ==
    /\ ret.op = "get"
    /\ ret.name = V(nH, <<"9">>)
    /\ \E i \in 1..Len(keys) : keys[i].fName = nH
    /\ ret.val = Err("KeyError")

\* C3: an explicit cycle overrides the number after ';': get("n;k", cycle=c)
\* selects the key with fName n and fCycle c.
C3_ExplicitCycleOverrides ==
    [][(/\ ret'.op = "get"
        /\ ~Contains(ret'.name, Slash)
        /\ ret'.cycle # None
        /\ Semis(ret'.name) # {}
        /\ IsDecimal(AskedTail(ret'.name))
        /\ Matching(keys, SubSeq(ret'.name, 1, Max(Semis(ret'.name)) - 1), ret'.cycle) # {})
       => ret'.val =
            View(keys[Min(Matching(keys, SubSeq(ret'.name, 1, Max(Semis(ret'.name)) - 1),
                                   ret'.cycle))])
      ]_vars

----------------------------------------------------------------------------
(* Reading keys again: C4, C5, C8 *)

\* every key of the file has a class the class map holds, or is a directory
AllClassesKnown ==
    \A o \in DOMAIN file.dirs : \A j \in 1..Len(file.dirs[o].keys) :
        file.dirs[o].keys[j].fClassName \in context.classes \cup {"TDirectory"}

\* C4: every path allkeys() yielded can be fetched: a get of it succeeds and
\* returns a value, also after the traversal has called get() on the
\* sub-directory keys along it. Stated for the files whose keys all have
\* known classes.
C4_ListedPathsAreFetched ==
    (AllClassesKnown /\ ret.op = "get" /\ ret.cycle = None
        /\ ret.name \in Range(listed))
        => ret.val.kind \in {"obj", "dir"}

\* C5: get() never changes the cursor a key holds, whatever the key's
\* class: every key keeps the cursor TKey._readinto gave it.
C5_GetKeepsTheCursor ==
    \A i \in 1..Len(keys) : keys[i].cursor = InitialCursor(keys[i])

\* C8: a get() that fails leaves the directory's keys, their cursors and
\* sources, and the file context as they were.
C8_FailedGetChangesNothing ==
    [][(ret'.op = "get" /\ IsErr(ret'.val))
          => (keys' = keys /\ context' = context /\ file' = file)]_vars

----------------------------------------------------------------------------
(* Recursive listing: C6, C7 *)

\* deepest nesting of directories in the files read, and their longest key list
MaxDepth == 3
MaxWidth == 3

\* the places of a tree: one key position per level
Places == UNION {[1..n -> 1..MaxWidth] : n \in 1..MaxDepth}

Tail1(p) == SubSeq(p, 2, Len(p))

\* the place p is a key of the tree under the keys ks, every key above it
\* being a TDirectory key that reads as a directory
RECURSIVE IsPlace(_, _)
IsPlace(ks, p) ==
    /\ p[1] <= Len(ks)
    /\ \/ Len(p) = 1
       \/ /\ ks[p[1]].fClassName = "TDirectory"
          /\ View(ks[p[1]]).kind = "dir"
          /\ IsPlace(View(ks[p[1]]).keys, Tail1(p))

RECURSIVE KeyAt(_, _)
KeyAt(ks, p) ==
    IF Len(p) = 1 THEN ks[p[1]] ELSE KeyAt(View(ks[p[1]]).keys, Tail1(p))

\* the '/'-join of the name;cycle of every key from the top down to p
RECURSIVE PathName(_, _)
PathName(ks, p) ==
    IF Len(p) = 1 THEN ks[p[1]].fName \o <<Semi>> \o Decimal(ks[p[1]].fCycle)
    ELSE ks[p[1]].fName \o <<Semi>> \o Decimal(ks[p[1]].fCycle) \o <<Slash>>
            \o PathName(View(ks[p[1]]).keys, Tail1(p))

\* pre-order: a key before the keys under it, and keys in stored order
Before(p, q) ==
    \/ Len(p) < Len(q) /\ SubSeq(q, 1, Len(p)) = p
    \/ \E k \in 1..Len(p) :
          /\ k <= Len(q)
          /\ SubSeq(p, 1, k - 1) = SubSeq(q, 1, k - 1)
          /\ p[k] < q[k]

RECURSIVE InOrder(_)
InOrder(S) ==
    IF S = {} THEN <<>>
    ELSE LET first == CHOOSE p \in S : \A q \in S \ {p} : Before(p, q)
         IN <<first>> \o InOrder(S \ {first})

\* the places a recursive listing is to yield: every key that passes both
\* filters, under whatever directories
Wanted(ks, filtername, filterclass) ==
    InOrder({p \in Places :
                /\ IsPlace(ks, p)
                /\ KeyAt(ks, p).fName \in filtername
                /\ KeyAt(ks, p).fClassName \in filterclass})

\* what a listing of the given kind is to yield for the key at p
WantedItem(kind, ks, p) ==
    CASE kind = "keys"    -> [name |-> PathName(ks, p), cls |-> "", val |-> NoVal]
      [] kind = "classes" -> [name |-> PathName(ks, p), cls |-> KeyAt(ks, p).fClassName,
                              val |-> NoVal]
      [] kind = "values"  -> [name |-> <<>>, cls |-> "", val |-> View(KeyAt(ks, p))]
      [] kind = "items"   -> [name |-> PathName(ks, p), cls |-> "",
                              val |-> View(KeyAt(ks, p))]

WantedItems(kind, ks, filtername, filterclass) ==
    LET w == Wanted(ks, filtername, filterclass)
    IN [j \in 1..Len(w) |-> WantedItem(kind, ks, w[j])]

\* C6: a recursive listing (keys, values, items, classes) that runs to its
\* end yields, in pre-order and stored key order, every key that passes both
\* filters, whether or not the directories above it pass them, named by the
\* '/'-join of the name;cycle of each key on the way.
C6_RecursiveListingIsPreOrder ==
    [][(ret'.op \in ListKinds /\ ret'.recursive /\ ret'.err = NoErr)
          => ret'.items = WantedItems(ret'.op, keys, ret'.filtername, ret'.filterclass)
      ]_vars

\* the same of keys() and classes(), which yield without calling get()
C6_KeysAndClassesArePreOrder ==
    [][(ret'.op \in {"keys", "classes"} /\ ret'.recursive /\ ret'.err = NoErr)
          => ret'.items = WantedItems(ret'.op, keys, ret'.filtername, ret'.filterclass)
      ]_vars

\* the directory holds exactly one key, sub;1 of class TDirectory, and the
\* directory that key reads holds the keys a;1 and b;1, no directories
OnlySubWithAB(ks) ==
    /\ Len(ks) = 1
    /\ ks[1].fName = nSub /\ ks[1].fCycle = 1 /\ ks[1].fClassName = "TDirectory"
    /\ View(ks[1]).kind = "dir"
    /\ LET d == View(ks[1]).keys
       IN /\ Len(d) = 2
          /\ d[1].fName = nA /\ d[1].fCycle = 1 /\ d[1].fClassName # "TDirectory"
          /\ d[2].fName = nB /\ d[2].fCycle = 1 /\ d[2].fClassName # "TDirectory"

IsAllKeys(r) ==
    /\ r.op = "keys" /\ r.recursive
    /\ r.filtername = AllNames /\ r.filterclass = AllClasses

\* C7 as stated: on that directory allkeys() yields sub;1, sub/a;1, sub/b;1.
C7_Original ==
    [][(IsAllKeys(ret') /\ OnlySubWithAB(keys))
          => Names(ret'.items)
               = <<V(nSub, <<"1">>), P(nSub, V(nA, <<"1">>)), P(nSub, V(nB, <<"1">>))>>
      ]_vars

\* C7 amended: on that directory allkeys() yields exactly sub;1, sub;1/a;1,
\* sub;1/b;1, in that order: the directory's segment carries its cycle too.
C7_AllKeysOfSub ==
    [][(IsAllKeys(ret') /\ OnlySubWithAB(keys))
          => /\ ret'.err = NoErr
             /\ Names(ret'.items)
                  = <<V(nSub, <<"1">>), P(V(nSub, <<"1">>), V(nA, <<"1">>)),
                      P(V(nSub, <<"1">>), V(nB, <<"1">>))>>
      ]_vars

\* allkeys() ran on such a directory and yielded the three names
C7_Witness ==
    /\ IsAllKeys(ret)
    /\ Len(keys) = 1 /\ keys[1].fName = nSub /\ keys[1].fCycle = 1
    /\ file.dirs[200].keys = <<kA1, kB1>>
    /\ ret.err = NoErr
    /\ Names(ret.items)
         = <<V(nSub, <<"1">>), P(V(nSub, <<"1">>), V(nA, <<"1">>)),
             P(V(nSub, <<"1">>), V(nB, <<"1">>))>>

----------------------------------------------------------------------------
(* Unknown classes: C9, C10 *)

\* the framed record of an object with n bytes of fields
FramedSizes == 0..4
FramedRecord(n) ==
    [base |-> 0, origin |-> 0, elems |-> <<>>, ok |-> TRUE,
     toks |-> <<Hdr(n + 2, 1), Bytes(n)>>]

\* C9: get() of a key whose class is not in the class map returns an
\* Undefined placeholder, and Undefined's read of a framed record ends at
\* start + cnt with _endcheck passing, for every byte count.
C9_UnknownKeyIsSkipped ==
    [][(ret'.op = "key"
          /\ keys[ret'.i].fClassName \notin context.classes \cup {"TDirectory"})
          => /\ ret'.val.kind = "undefined"
             /\ \A n \in FramedSizes :
                   LET r == UndefinedReadinto(FramedRecord(n),
                                              [index |-> 0, origin |-> 0, refs |-> <<>>])
                   IN r.err = NoErr /\ r.cursor.index = n + 6
      ]_vars

\* the element names a class that is not in the class map
NamesUnknown(e) == e.k \in {"new", "known"} /\ e.c \notin context.classes

\* C10: a container with elements of an unknown class (and no unresolvable
\* reference) is read to its end: nothing is raised, and when the read is
\* done every element has been decoded, those after the unknown class too.
C10_UnknownClassDoesNotPoison ==
    ((\E i \in 1..Len(stream.elems) : NamesUnknown(stream.elems[i]))
       /\ (\A i \in 1..Len(stream.elems) : stream.elems[i].k # "lost"))
        => /\ pc.at # "raised"
           /\ (pc.at = "done" => Len(got) = Len(stream.elems))

----------------------------------------------------------------------------
(* The ref table: C11, C12 *)

\* the first word of the record at the cursor
FirstWord == Field(stream, cur.index, "u32").tok.w

\* the next element of the loop is a reference no record registered, and
\* the cursor is at its first byte
NextIsLost ==
    /\ pc.at = "elements"
    /\ Len(got) < pc.size
    /\ stream.elems[Len(got) + 1].k = "lost"
    /\ Field(stream, cur.index, "u32").ok

\* the framed end of the record at the cursor: its first byte plus 4 plus the
\* byte count without the kByteCountMask flag; after the tag when unframed
FramedEnd == cur.index + 4 + (IF FirstWord.bc THEN FirstWord.low ELSE 0)

\* C11: _readanyref on a reference tag that is not in cursor.refs raises
\* nothing, returns null, leaves the ref table as it was and leaves the cursor
\* at the framed end of the record.
C11_LostReferenceIsSkipped ==
    [][NextIsLost
          => /\ pc'.at # "raised"
             /\ got' = Append(got, Null)
             /\ cur'.refs = cur.refs
             /\ cur'.index = FramedEnd
      ]_vars

\* C11 for the unframed tag alone: the cursor is left after the 4 tag bytes
C11_UnframedLostReferenceIsSkipped ==
    [][(NextIsLost /\ ~FirstWord.bc)
          => /\ pc'.at # "raised"
             /\ got' = Append(got, Null)
             /\ cur'.refs = cur.refs
             /\ cur'.index = cur.index + 4
      ]_vars

\* the tag of the record at the cursor: its first word when that is no byte
\* count, else its second
TagAtCursor ==
    IF ~FirstWord.bc \/ FirstWord = kNewClassTag THEN FirstWord
    ELSE Field(stream, cur.index + 4, "u32").tok.w

\* the next element of the loop is a reference tag that resolves in
\* cursor.refs
NextResolves ==
    /\ pc.at = "elements"
    /\ Len(got) < pc.size
    /\ Field(stream, cur.index, "u32").ok
    /\ ~TagAtCursor.cls
    /\ Value(TagAtCursor) \notin {0, 1}
    /\ Value(TagAtCursor) \in DOMAIN cur.refs

\* C12: decoding a reference tag that resolves in cursor.refs returns the
\* entry of the table and changes no entry, so decoding the same tag again
\* returns the identical object: all references of one container to one tag
\* decode to the same value.
C12_ResolvedReferenceIsIdempotent ==
    [][NextResolves
          => /\ pc'.at # "raised"
             /\ got' = Append(got, cur.refs[Value(TagAtCursor)])
             /\ cur'.refs = cur.refs
             /\ \A i, j \in 1..Len(got') :
                   (stream.elems[i].k = "ref" /\ stream.elems[j].k = "ref")
                       => got'[i] = got'[j]
      ]_vars

\* an object was read, then the reference to it was decoded twice
C12_Witness ==
    /\ Len(got) = 3
    /\ stream.elems[2].k = "ref" /\ stream.elems[3].k = "ref"
    /\ got[1].kind = "obj"
    /\ got[2] = got[1] /\ got[3] = got[1]
    /\ Cardinality(DOMAIN cur.refs) = 2

----------------------------------------------------------------------------
(* _defineclasses: the reader synthesized for one TStreamerInfo *)

\* basic type codes of uproot.const
kChar == 1
kShort == 2
kInt == 3
kLong == 4
kFloat == 5
kCounter == 6
kCharStar == 7
kDouble == 8
kDouble32 == 9
kUChar == 11
kUShort == 12
kUInt == 13
kULong == 14
kBits == 15
kLong64 == 16
kULong64 == 17
kBool == 18
kFloat16 == 19
kOffsetL == 20
kOffsetP == 40
kObjectp == 61
kObjectP == 62

\* the struct letter of a scalar TStreamerBasicType, "" when the code raises
\* NotImplementedError(element.fType)
Letter(fType) ==
    CASE fType = kBool -> "?"
      [] fType = kChar -> "b"
      [] fType = kUChar -> "B"
      [] fType = kShort -> "h"
      [] fType = kUShort -> "H"
      [] fType = kInt -> "i"
      [] fType \in {kBits, kUInt, kCounter} -> "I"
      [] fType = kLong -> "l"
      [] fType = kULong -> "L"
      [] fType = kLong64 -> "q"
      [] fType = kULong64 -> "Q"
      [] fType \in {kFloat, kFloat16} -> "f"
      [] fType \in {kDouble, kDouble32} -> "d"
      [] OTHER -> ""

\* the numpy dtype of a TStreamerBasicPointer whose fType - kOffsetP is fType
Dtype(fType) ==
    CASE fType = kBool -> "bool"
      [] fType = kChar -> "i1"
      [] fType = kUChar -> "u1"
      [] fType = kShort -> ">i2"
      [] fType = kUShort -> ">u2"
      [] fType = kInt -> ">i4"
      [] fType \in {kBits, kUInt, kCounter} -> ">u4"
      [] fType = kLong -> ">long"
      [] fType = kULong -> ">ulong"
      [] fType = kLong64 -> ">i8"
      [] fType = kULong64 -> ">u8"
      [] fType \in {kFloat, kFloat16} -> ">f4"
      [] fType \in {kDouble, kDouble32} -> ">f8"
      [] OTHER -> ""

\* isinstance(element, TStreamerBasicType)
IsBasicType(element) == element.cls = "TStreamerBasicType"

\* a batch that ends only with the list
ClosesBatchAtEndOnly(elements, i) == i = Len(elements)

\* the test that ends a batch of scalars at element i: it is the last
\* element, or the next is no TStreamerBasicType, or the next is an array
ClosesBatch(elements, i) ==
    \/ i = Len(elements)
    \/ ~IsBasicType(elements[i + 1])
    \/ elements[i + 1].fArrayLength # 0

\* the synthesizer's state before any element
CodeStart ==
    [code |-> <<>>, basicnames |-> <<>>, basicletters |-> <<>>, formats |-> 0,
     dtypes |-> 0, err |-> NoErr]

\* one iteration of the loop over streamerinfo.fElements, on element i
CodeStep(elements, i, st) ==
    LET element == elements[i]
        Fail(e) == [st EXCEPT !.err = e]
        Emit(line) == [st EXCEPT !.code = Append(@, line)]
    IN
    CASE element.cls = "TStreamerArtificial" -> Fail("NotImplementedError")
      [] element.cls = "TStreamerBase" ->
            Emit([op |-> "base", name |-> element.fName])
      [] element.cls = "TStreamerBasicPointer" ->
            IF ~element.counter THEN Fail("ValueError")
            ELSE IF ~(kOffsetP < element.fType /\ element.fType < kOffsetP + 20)
            THEN Fail("AssertionError")
            ELSE IF Dtype(element.fType - kOffsetP) = "" THEN Fail("NotImplementedError")
            ELSE [st EXCEPT
                    !.code = @ \o <<[op |-> "field", names |-> <<"_" \o element.fName>>,
                                     letters |-> <<"B">>],
                                    [op |-> "array", name |-> element.fName,
                                     dtype |-> Dtype(element.fType - kOffsetP)]>>,
                    !.formats = @ + 1,
                    !.dtypes = @ + 1]
      [] element.cls = "TStreamerBasicType" ->
            IF element.fArrayLength # 0 THEN Fail("NotImplementedError")
            ELSE IF Letter(element.fType) = "" THEN Fail("NotImplementedError")
            ELSE LET names == Append(st.basicnames, element.fName)
                     letters == Append(st.basicletters, Letter(element.fType))
                 IN IF ClosesBatch(elements, i)
                    THEN [st EXCEPT
                            !.code = Append(@, [op |-> IF Len(names) = 1 THEN "field"
                                                       ELSE "fields",
                                                names |-> names, letters |-> letters]),
                            !.formats = @ + 1,
                            !.basicnames = <<>>,
                            !.basicletters = <<>>]
                    ELSE [st EXCEPT !.basicnames = names, !.basicletters = letters]
      [] element.cls \in {"TStreamerLoop", "TStreamerObjectAnyPointer",
                          "TStreamerSTL", "TStreamerSTLString"} ->
            Fail("NotImplementedError")
      [] element.cls = "TStreamerObjectPointer" ->
            IF element.fType = kObjectp
            THEN Emit([op |-> "read", name |-> element.fName])
            ELSE IF element.fType = kObjectP
            THEN Emit([op |-> "readanyref", name |-> element.fName])
            ELSE Fail("NotImplementedError")
      [] element.cls \in {"TStreamerObject", "TStreamerObjectAny", "TStreamerString"} ->
            Emit([op |-> "read", name |-> element.fName])
      [] OTHER -> Fail("AssertionError")

\* the loop from element i on, to its end or to the exception that ends it
RECURSIVE CodeFrom(_, _, _)
CodeFrom(elements, i, st) ==
    IF i > Len(elements) \/ st.err # NoErr THEN st
    ELSE CodeFrom(elements, i + 1, CodeStep(elements, i, st))

\* the body of the _readinto generated for a class with these elements
ClassCode(elements) == CodeFrom(elements, 1, CodeStart)

----------------------------------------------------------------------------
(* ROOTDirectory.read(source): opening a file *)

MaxInfos == 2
MaxParses == 2

\* the classes required to read streamers
StreamerClasses ==
    {"TStreamerInfo", "TStreamerElement", "TStreamerBase", "TStreamerBasicType",
     "TStreamerBasicPointer", "TStreamerLoop", "TStreamerObject",
     "TStreamerObjectPointer", "TStreamerObjectAny", "TStreamerObjectAnyPointer",
     "TStreamerString", "TStreamerSTL", "TStreamerSTLString", "TStreamerArtificial",
     "TObjArray"}

U8(v) == [t |-> "u8", v |-> v, n |-> 1]

\* what the streamer list of a file may hold: a TStreamerInfo, a TObjArray,
\* a TStreamerInfo whose byte count is off by one, a null
InfoKinds == {"info", "array", "bad", "null"}
InfoClass(k) == IF k = "array" THEN "TObjArray" ELSE "TStreamerInfo"

\* the element k of the streamer list written after st, then its options
\* byte (no options)
WrittenInfo(k, st) ==
    LET e == IF k = "null" THEN [k |-> "null"]
             ELSE [k |-> IF st.ctag[InfoClass(k)] = 0 THEN "new" ELSE "known",
                   framed |-> TRUE, c |-> InfoClass(k)]
        w == Written(e, st)
        m == Len(w.toks)
        toks == IF k = "bad"
                THEN [w.toks EXCEPT ![m - 1] = Hdr(BodyLen(InfoClass(k)) + 3, 1)]
                ELSE w.toks
    IN [w EXCEPT !.toks = toks \o <<U8(0)>>, !.off = @ + 1]

RECURSIVE WrittenInfos(_, _, _)
WrittenInfos(infos, i, st) ==
    IF i > Len(infos) THEN st
    ELSE WrittenInfos(infos, i + 1, WrittenInfo(infos[i], st))

\* the payload of the streamer-info key: a TList of infos
StreamerRecord(infos, base, origin) ==
    LET st == WrittenInfos(infos, 1,
                           [toks |-> <<>>, off |-> base - origin + ListHeadLen, n |-> 0,
                            ctag |-> [c \in ElemClasses |-> 0], otag |-> 0, ok |-> TRUE])
        len == st.off - (base - origin)
    IN [base |-> base, origin |-> origin, elems |-> infos, ok |-> st.ok,
        toks |-> ListHead(infos, len) \o st.toks]

\* the fElements of the TStreamerInfo of a class
BasicElement(name, fType) ==
    [cls |-> "TStreamerBasicType", fName |-> name, fType |-> fType,
     fArrayLength |-> 0, counter |-> FALSE]
OtherElement(cls, name, fType) ==
    [cls |-> cls, fName |-> name, fType |-> fType, fArrayLength |-> 0,
     counter |-> TRUE]

InfoElements ==
    {<<>>,
     <<BasicElement("fA", kInt), BasicElement("fB", kDouble)>>,
     <<OtherElement("TStreamerArtificial", "fX", 0)>>}

\* the names of the classes the infos of the list describe, by position
InfoNames == <<"TH1F", "TNamed">>

\* the files opened
Images ==
    [magic : BOOLEAN, big : BOOLEAN, packed : BOOLEAN,
     infos : UNION {[1..n -> InfoKinds] : n \in 0..MaxInfos},
     elements : InfoElements, nkeys : 0..MaxKeys, cut : BOOLEAN]

\* one step of the loop of _readstreamers: _readanyref, the assertion, the
\* options
StreamerRead(source, cursor, classes) ==
    LET r == ReadAnyRef(source, cursor, classes)
    IN IF r.err # NoErr THEN r
       ELSE IF ~(r.val.kind = "obj" /\ r.val.cls = "TStreamerInfo")
       THEN Raise("AssertionError", r.cursor)
       ELSE LET o == Field(source, r.cursor.index, "u8")
            IN IF ~o.ok THEN Raise("struct.error", r.cursor)
               ELSE IF o.tok.v = 0
               THEN Return(r.val, [r.cursor EXCEPT !.index = o.index])
               ELSE LET b == Field(source, o.index, "bytes")
                    IN IF ~b.ok THEN Raise("struct.error", r.cursor)
                       ELSE Return(r.val, [r.cursor EXCEPT !.index = b.index])

\* _defineclasses(streamerinfos): the class map, or the exception; names[i]
\* and elements are the fName and fElements of streamerinfos[i]
RECURSIVE DefineFrom(_, _, _, _)
DefineFrom(names, elements, i, classes) ==
    IF i = 0 THEN [err |-> NoErr, classes |-> classes]
    ELSE IF names[i] \in classes THEN DefineFrom(names, elements, i - 1, classes)
    ELSE LET c == ClassCode(elements)
         IN IF c.err # NoErr THEN [err |-> c.err, classes |-> classes]
            ELSE DefineFrom(names, elements, i - 1, classes \cup {names[i]})

DefineClasses(streamerinfos, names, elements) ==
    DefineFrom(names, elements, Len(streamerinfos), DefinedClasses)

\* a parse that dismisses the source before it reads the keys
DirParseDismissFirst(nkeys, cut) ==
    [err |-> NoErr, nkeys |-> nkeys,
     events |-> <<"read", "read", "dismiss", "read", "read">>
                  \o [i \in 1..nkeys |-> "read"]]

\* ROOTDirectory.read(source, cursor, context, mykey): the calls the source
\* receives (fields of _format3, of _format4, the header key, nkeys, each
\* key, dismiss) and the directory; a source cut short fails in the last read
DirParse(nkeys, cut) ==
    IF cut
    THEN [err |-> "struct.error", nkeys |-> 0,
          events |-> <<"read", "read", "read", "read">>]
    ELSE [err |-> NoErr, nkeys |-> nkeys,
          events |-> <<"read", "read", "read", "read">>
                       \o [i \in 1..nkeys |-> "read"] \o <<"dismiss">>]

InitOpen ==
    /\ file = [junk |-> "raise", dirs |-> <<>>]
    /\ keys = <<>>
    /\ context = [classes |-> StreamerClasses]
    /\ listed = <<>>
    /\ ret = [op |-> "open"]
    /\ stream = [base |-> 0, origin |-> 0, elems |-> <<>>, ok |-> TRUE, toks |-> <<>>]
    /\ cur = [index |-> 0, origin |-> 0, refs |-> <<>>]
    /\ got = <<>>
    /\ pc = [at |-> "idle"]
    /\ boot \in [at : {"header"}, img : Images, parsed : {0}, tried : {0}, err : {NoErr}]
    /\ events = <<>>

Failed(e) == [boot EXCEPT !.at = "failed", !.err = e]

\* the file header: magic, fVersion, then _format2_small or _format2_big
OpenHeader ==
    /\ boot.at = "header"
    /\ IF ~boot.img.magic
       THEN /\ boot' = Failed("ValueError")
            /\ events' = Append(events, "read")
       ELSE /\ boot' = [boot EXCEPT !.at = "streamerkey"]
            /\ events' = events \o <<"read", "read">>
    /\ UNCHANGED <<dvars, rvars>>

\* streamerkey = TKey.read(source, Cursor(fSeekInfo), streamercontext)
StreamerKey ==
    /\ boot.at = "streamerkey"
    /\ \E o \in {IF boot.img.packed THEN <<0, -40>> ELSE <<1040, 1000>>} :
          /\ stream' = StreamerRecord(boot.img.infos, o[1], o[2])
          /\ cur' = [index |-> o[1], origin |-> o[2], refs |-> <<>>]
    /\ pc' = [at |-> "start"]
    /\ got' = <<>>
    /\ boot' = [boot EXCEPT !.at = "streamers"]
    /\ events' = Append(events, "read")
    /\ UNCHANGED dvars

\* _readstreamers up to its loop
StreamersStart ==
    /\ boot.at = "streamers"
    /\ pc.at = "start"
    /\ \E h \in {ListHeadRead(stream, cur)} :
          /\ cur' = h.cursor
          /\ IF h.err # NoErr
             THEN /\ pc' = [at |-> "raised", err |-> h.err, elem |-> 0]
                  /\ boot' = Failed(h.err)
             ELSE /\ pc' = [at |-> "elements", start |-> h.start, cnt |-> h.cnt,
                            size |-> h.size]
                  /\ boot' = boot
    /\ events' = Append(events, "read")
    /\ UNCHANGED <<dvars, stream, got>>

\* one iteration of the loop of _readstreamers
StreamerElement ==
    /\ boot.at = "streamers"
    /\ pc.at = "elements"
    /\ Len(got) < pc.size
    /\ \E r \in {StreamerRead(stream, cur, context.classes)} :
          /\ cur' = r.cursor
          /\ IF r.err # NoErr
             THEN /\ pc' = [at |-> "raised", err |-> r.err, elem |-> Len(got) + 1]
                  /\ got' = got
                  /\ boot' = Failed(r.err)
             ELSE /\ pc' = pc
                  /\ got' = Append(got, r.val)
                  /\ boot' = boot
    /\ events' = Append(events, "read")
    /\ UNCHANGED <<dvars, stream>>

\* the end of _readstreamers: _endcheck, return streamerinfos
StreamersEnd ==
    /\ boot.at = "streamers"
    /\ pc.at = "elements"
    /\ Len(got) = pc.size
    /\ \E e \in {EndCheck(pc.start, cur, pc.cnt)} :
          IF e # NoErr
          THEN /\ pc' = [at |-> "raised", err |-> e, elem |-> 0]
               /\ boot' = Failed(e)
          ELSE /\ pc' = [at |-> "done"]
               /\ boot' = [boot EXCEPT !.at = "define"]
    /\ UNCHANGED <<dvars, stream, cur, got, events>>

\* classes = _defineclasses(streamerinfos), then the file's context
DefineStep ==
    /\ boot.at = "define"
    /\ \E d \in {DefineClasses(got, InfoNames, boot.img.elements)} :
          IF d.err # NoErr
          THEN /\ boot' = Failed(d.err)
               /\ context' = context
          ELSE /\ boot' = [boot EXCEPT !.at = "rootdir"]
               /\ context' = [classes |-> d.classes]
    /\ UNCHANGED <<file, keys, listed, ret, rvars, events>>

\* mykey = TKey.read(source, keycursor, context), then
\* ROOTDirectory.read(source, keycursor, context, mykey)
RootDirectory ==
    /\ boot.at = "rootdir"
    /\ \E d \in {DirParse(boot.img.nkeys, boot.img.cut)} :
          /\ events' = events \o <<"read">> \o d.events
          /\ boot' = IF d.err # NoErr THEN Failed(d.err)
                     ELSE [boot EXCEPT !.at = "done", !.parsed = 1, !.tried = 1]
    /\ UNCHANGED <<dvars, rvars>>

\* get() of a TDirectory key of the open directory: one more directory parse,
\* which fails when the bytes at the key's cursor are no directory
SubDirectory ==
    /\ boot.at = "done"
    /\ boot.img.nkeys > 0
    /\ boot.tried < MaxParses
    /\ \E cut \in BOOLEAN :
       \E d \in {DirParse(0, cut)} :
          /\ events' = events \o d.events
          /\ boot' = [boot EXCEPT !.tried = @ + 1,
                                  !.parsed = IF d.err = NoErr THEN @ + 1 ELSE @]
    /\ UNCHANGED <<dvars, rvars>>

NextOpen ==
    \/ OpenHeader
    \/ StreamerKey
    \/ StreamersStart
    \/ StreamerElement
    \/ StreamersEnd
    \/ DefineStep
    \/ RootDirectory
    \/ SubDirectory

SpecOpen == InitOpen /\ [][NextOpen]_vars

----------------------------------------------------------------------------
(* Opening: C13, C15 *)

\* ROOTDirectory.read(source) has returned a directory
Opened == boot.at = "done"

\* _readstreamers has returned a list of TStreamerInfo of positive length
DecodedInfos ==
    /\ pc.at = "done"
    /\ Len(got) > 0
    /\ \A i \in 1..Len(got) : got[i].kind = "obj" /\ got[i].cls = "TStreamerInfo"

\* C13: open succeeds if and only if the streamer-info key decodes to a list
\* of TStreamerInfo of positive length with no exception: once open has
\* returned or raised, it has returned a directory exactly when the list was
\* decoded and is not empty.
C13_OpenIffStreamersDecode ==
    boot.at \in {"done", "failed"} => (Opened <=> DecodedInfos)

\* the half of C13 that needs no length: an open that returned a directory
\* decoded its streamer list to the end, every element a TStreamerInfo
C13_OpenedOnlyAfterDecoding ==
    Opened => /\ pc.at = "done"
              /\ \A i \in 1..Len(got) : got[i].cls = "TStreamerInfo"

----------------------------------------------------------------------------
(* The ref table of a get(): C14 *)

Dismisses(es) == Cardinality({i \in 1..Len(es) : es[i] = "dismiss"})

\* the calls a step has added to those the source had received
Added == SubSeq(events', Len(events) + 1, Len(events'))

\* C15: dismiss() is issued once per directory parse, at its end: the source
\* has received one dismiss per directory parsed, none before open has read
\* the last key of the root directory (so none during the bootstrap) and
\* none from a parse that failed; the dismiss of a parse is the last call that
\* parse makes, so open reads nothing after it.
C15_DismissOncePerParse ==
    [][/\ Dismisses(events') = boot'.parsed
       /\ (boot'.at # "done" => Dismisses(events') = 0)
       /\ (Dismisses(Added) = 1 => Added[Len(Added)] = "dismiss")
       /\ Dismisses(Added) <= 1
      ]_vars

\* open has returned and a sub-directory has been parsed: two parses, two
\* dismiss calls, the last call a dismiss
C15_Witness ==
    /\ boot.at = "done"
    /\ boot.parsed = 2
    /\ Dismisses(events) = 2
    /\ events[Len(events)] = "dismiss"
    /\ boot.img.nkeys = 2

----------------------------------------------------------------------------
(* TKey._readinto: the payload source of a key, C16 *)

\* the key records read: sizes that agree and sizes that differ, in files
\* with and without a compression setting
KeyRecords ==
    [fClassName : {"TNamed"}, fName : {nA}, fCycle : {1},
     fSeekKey : {100, 150}, fKeylen : {40, 50},
     fNbytes : {90, 100, 140}, fObjlen : {50, 60, 100}]

Compressions == {0, 101}

InitKey ==
    /\ file = [junk |-> "raise", dirs |-> <<>>]
    /\ keys = <<>>
    /\ \E c \in Compressions : context = [classes |-> DefinedClasses, compression |-> c]
    /\ listed = <<>>
    /\ \E d \in KeyRecords : ret = [op |-> "record", d |-> d]
    /\ stream = [base |-> 0, origin |-> 0, elems |-> <<>>, ok |-> TRUE, toks |-> <<>>]
    /\ cur = [index |-> 0, origin |-> 0, refs |-> <<>>]
    /\ got = <<>>
    /\ pc = [at |-> "idle"]
    /\ boot = [at |-> "idle"]
    /\ events = <<>>

\* TKey.read(source, cursor, context) of the record
ReadKey ==
    /\ ret.op = "record"
    /\ ret' = [op |-> "tkey", d |-> ret.d, key |-> TKeyRead(ret.d)]
    /\ UNCHANGED <<file, keys, context, listed, rvars, ovars>>

NextKey == ReadKey

SpecKey == InitKey /\ [][NextKey]_vars

\* C16: a key's payload is read as compressed if and only if fObjlen differs
\* from fNbytes - fKeylen, whatever the file's fCompress: equal sizes give the
\* file source with cursor index fSeekKey + fKeylen and origin fSeekKey,
\* other sizes a decompression window with cursor index 0 and origin -fKeylen.
C16_CompressedIffSizesDiffer ==
    ret.op = "tkey" =>
        LET d == ret.d
            key == ret.key
        IN IF d.fObjlen = d.fNbytes - d.fKeylen
           THEN /\ key.source.kind = "file"
                /\ key.cursor.index = d.fSeekKey + d.fKeylen
                /\ key.cursor.origin = d.fSeekKey
           ELSE /\ key.source.kind = "compressed"
                /\ key.source.at = d.fSeekKey + d.fKeylen
                /\ key.source.nbytes = d.fNbytes - d.fKeylen
                /\ key.source.objlen = d.fObjlen
                /\ key.cursor.index = 0
                /\ key.cursor.origin = 0 - d.fKeylen

\* a key of equal sizes in a file with a compression setting was read from
\* the file source
C16_Witness ==
    /\ ret.op = "tkey"
    /\ context.compression # 0
    /\ ret.d.fObjlen = ret.d.fNbytes - ret.d.fKeylen
    /\ ret.key.source.kind = "file"
    /\ ret.key.cursor.index = ret.d.fSeekKey + ret.d.fKeylen

----------------------------------------------------------------------------
(* The cursor of one read: C17 *)

\* C17: within one object read the cursor index never decreases, the
\* assignment of the unresolvable-reference jump included, and the cursor is
\* never before its origin, so no read addresses a byte before the origin.
C17_IndexNeverDecreases ==
    [][/\ cur.index >= cur.origin
       /\ (ret'.n = ret.n => (cur'.index >= cur.index /\ cur'.index >= cur'.origin))
      ]_vars

\* the read has jumped past a reference it could not resolve and went on
C17_Witness ==
    /\ Len(stream.elems) >= 2
    /\ stream.elems[1].k = "lost"
    /\ ~stream.elems[1].framed
    /\ Len(got) = 2
    /\ got[1] = Null
    /\ cur.index > stream.base + ListHeadLen + 4

----------------------------------------------------------------------------
(* What _readanyref registers, and when: C18 *)

\* the keys of refs the step has added
NewKeys == DOMAIN cur'.refs \ DOMAIN cur.refs

\* C18: a record of a new class registers the factory under
\* start + kMapOffset when it has a byte count and under len(refs) + 1
\* otherwise, before the object is read (it is there when the read raises);
\* a new object is registered under beg + kMapOffset when it has a byte
\* count and under len(refs) + 1 otherwise, once its read is over (not when
\* it raises), after the objects nested in it.
C18_RegistrationKeysAndOrder ==
    [][(/\ pc.at = "elements"
        /\ Len(got) < pc.size
        /\ cur' # cur
        /\ Field(stream, cur.index, "u32").ok
        /\ stream.elems[Len(got) + 1].k \in {"new", "known", "nest"})
       => LET e == stream.elems[Len(got) + 1]
              beg == cur.index - cur.origin
              n0 == RefsLen(cur)
              done == pc'.at = "elements"
              obj == got'[Len(got')]
              cname == IF e.k = "nest" THEN "TObjArray" ELSE e.c
              fctkey == IF e.framed THEN beg + 4 + kMapOffset ELSE n0 + 1
              objkey == IF e.framed THEN beg + kMapOffset
                        ELSE Cardinality(DOMAIN cur'.refs)
          IN /\ \A k \in DOMAIN cur.refs : cur'.refs[k] = cur.refs[k]
             /\ e.k \in {"new", "nest"} =>
                   /\ fctkey \in NewKeys
                   /\ cur'.refs[fctkey] = ClassesGet(context.classes, cname)
             /\ done =>
                   /\ Len(got') = Len(got) + 1
                   /\ obj = [kind |-> "obj", cls |-> cname,
                             at |-> cur.index + (IF e.framed THEN 8 ELSE 4)
                                      + (IF e.k = "known" THEN 0 ELSE NameLen(cname))]
                   /\ objkey \in NewKeys
                   /\ cur'.refs[objkey] = obj
             /\ e.k = "new" =>
                   NewKeys = IF done THEN {fctkey, objkey} ELSE {fctkey}
             /\ (e.k = "new" /\ ~e.framed /\ done) => objkey = n0 + 2
             /\ e.k = "known" =>
                   /\ NewKeys = IF done THEN {objkey} ELSE {}
                   /\ (~e.framed /\ done) => objkey = n0 + 1
             /\ e.k = "nest" =>
                   /\ done
                   /\ \E k \in NewKeys \ {fctkey, objkey} :
                         /\ cur'.refs[k].kind = "obj"
                         /\ cur'.refs[k].cls = "TNamed"
                         /\ cur'.refs[k].at > obj.at
                         /\ ~e.inframed => k = n0 + Cardinality(NewKeys) - 1
                         /\ e.inframed =>
                               k = cur'.refs[k].at - cur.origin + kMapOffset - 8
                                     - (IF \E j \in DOMAIN cur.refs :
                                              cur.refs[j] = Factory("TNamed")
                                        THEN 0 ELSE NameLen("TNamed"))
                         /\ ~e.framed => objkey = n0 + Cardinality(NewKeys)
      ]_vars

\* an array and the object in it, neither with a byte count, have been read:
\* the factory, the nested class and object, then the array
C18_Witness ==
    /\ pc.at = "elements"
    /\ Len(got) = 1
    /\ stream.elems[1].k = "nest"
    /\ ~stream.elems[1].framed
    /\ ~stream.elems[1].inframed
    /\ DOMAIN cur.refs = 1..4
    /\ cur.refs[4] = got[1]
    /\ cur.refs[3].kind = "obj"

----------------------------------------------------------------------------
(* Byte-count framing: C19 *)

\* the bytes of the record read, header included
RECURSIVE Size(_, _)
Size(toks, i) == IF i > Len(toks) THEN 0 ELSE toks[i].n + Size(toks, i + 1)

\* a framed record of n bytes of fields whose header counts n + d of them,
\* with the flag in the count word or without it
Miscounts == {-1, 0, 1}
CountedRecord(n, d, flag) ==
    [base |-> 0, origin |-> 0, elems |-> <<>>, ok |-> TRUE,
     toks |-> <<[Hdr(n + 2 + d, 1) EXCEPT !.w.bc = flag], Bytes(n)>>]

\* C19: _startcheck returns the start of the record and the count with the
\* flag cleared plus 4, which is the size of the record from the first byte
\* of its header; _endcheck raises exactly when cursor.index - start is not
\* that count; so a framed reader that returns has consumed exactly the bytes
\* of its record, and raises otherwise.
C19_FramedReadersConsumeTheirRecord ==
    [][/\ (pc.at = "start" /\ pc'.at = "elements")
          => /\ pc'.start = cur.index
             /\ pc'.cnt = Size(stream.toks, 1)
       /\ (pc.at = "elements" /\ Len(got) = pc.size /\ pc' # pc)
          => /\ (pc'.at = "raised" /\ pc'.err = "ValueError")
                   <=> cur.index - pc.start # pc.cnt
             /\ pc'.at = "done" <=> cur.index - pc.start = pc.cnt
       /\ pc'.at = "done" => cur'.index = stream.base + Size(stream.toks, 1)
       /\ (pc.at = "elements" /\ Len(got') = Len(got) + 1
             /\ stream.elems[Len(got')].k \in {"new", "known", "nest"})
          => LET k == Locate(stream, 1, stream.base, got'[Len(got')].at)
             IN /\ k > 0
                /\ stream.toks[k].t = "hdr"
                /\ cur'.index - got'[Len(got')].at = stream.toks[k].w.low + 4
       /\ \A n \in FramedSizes, d \in Miscounts, flag \in BOOLEAN :
             LET r == ClassReadinto("TNamed", CountedRecord(n, d, flag),
                                    [index |-> 0, origin |-> 0, refs |-> <<>>],
                                    context.classes)
             IN /\ r.err = (IF d = 0 THEN NoErr ELSE "ValueError")
                /\ r.cursor.index = n + 6
      ]_vars

\* a list whose elements are framed objects, one nested in another, has been
\* read to its end
C19_Witness ==
    /\ pc.at = "done"
    /\ Len(got) = 2
    /\ stream.elems[1].k = "nest"
    /\ stream.elems[2].k = "known"
    /\ stream.elems[2].framed
    /\ cur.index = stream.base + Size(stream.toks, 1)

----------------------------------------------------------------------------
(* _defineclasses: the _readinto generated for one TStreamerInfo, C20 *)

MaxFields == 3

\* fName of the element at each place of fElements
FieldNames == <<"fA", "fB", "fC", "fD", "fE">>

\* the elements a TStreamerInfo may hold at place i: scalars of known and
\* unknown fType, a fixed-size array, a base, a counted array, a string, an
\* artificial element
FieldsAt(i) ==
    {BasicElement(FieldNames[i], t) : t \in {kInt, kDouble, kBool, kCharStar}}
    \cup {[BasicElement(FieldNames[i], kOffsetL + kInt) EXCEPT !.fArrayLength = 2],
          OtherElement("TStreamerBase", FieldNames[i], 0),
          OtherElement("TStreamerBasicPointer", FieldNames[i], kOffsetP + kShort),
          OtherElement("TStreamerString", FieldNames[i], 65),
          OtherElement("TStreamerArtificial", FieldNames[i], 0)}

FieldLists ==
    UNION {{fs \in [1..n -> UNION {FieldsAt(i) : i \in 1..n}] :
               \A i \in 1..n : fs[i] \in FieldsAt(i)} : n \in 0..MaxFields}

InitSynth ==
    /\ file = [junk |-> "raise", dirs |-> <<>>]
    /\ keys = <<>>
    /\ context = [classes |-> DefinedClasses]
    /\ listed = <<>>
    /\ ret = [op |-> "define"]
    /\ stream = [base |-> 0, origin |-> 0, elems |-> <<>>, ok |-> TRUE, toks |-> <<>>]
    /\ cur = [index |-> 0, origin |-> 0, refs |-> <<>>]
    /\ got = <<>>
    /\ pc = [at |-> "idle"]
    /\ boot \in [at : {"elements"}, elements : FieldLists, i : {1}, st : {CodeStart}]
    /\ events = <<>>

\* one iteration of the loop over streamerinfo.fElements
SynthElement ==
    /\ boot.at = "elements"
    /\ boot.i <= Len(boot.elements)
    /\ \E st \in {CodeStep(boot.elements, boot.i, boot.st)} :
          boot' = IF st.err # NoErr THEN [boot EXCEPT !.at = "raised", !.st = st]
                  ELSE [boot EXCEPT !.i = @ + 1, !.st = st]
    /\ UNCHANGED <<dvars, rvars, events>>

\* after the loop: the _endcheck line, then the class is made
SynthClass ==
    /\ boot.at = "elements"
    /\ boot.i > Len(boot.elements)
    /\ boot' = [boot EXCEPT !.at = "class",
                            !.st.code = Append(@, [op |-> "endcheck"])]
    /\ UNCHANGED <<dvars, rvars, events>>

NextSynth == SynthElement \/ SynthClass

SpecSynth == InitSynth /\ [][NextSynth]_vars

\* the bytes struct.Struct('!' + letter) takes: standard sizes, no padding
LetterSize(letter) ==
    CASE letter \in {"?", "b", "B"} -> 1
      [] letter \in {"h", "H"} -> 2
      [] letter \in {"i", "I", "l", "L", "f"} -> 4
      [] OTHER -> 8

\* the bytes a read that is no scalar takes, whatever it reads
OpaqueLen == 16

\* what the generated lines decode, in order: each name with the letter or
\* the kind of read and the offset of its bytes from the first line's
RECURSIVE FieldsDecoded(_, _, _, _)
FieldsDecoded(names, letters, k, off) ==
    IF k > Len(names) THEN <<>>
    ELSE <<[name |-> names[k], as |-> letters[k], off |-> off]>>
         \o FieldsDecoded(names, letters, k + 1, off + LetterSize(letters[k]))

RECURSIVE Sizes(_, _)
Sizes(letters, k) ==
    IF k > Len(letters) THEN 0 ELSE LetterSize(letters[k]) + Sizes(letters, k + 1)

RECURSIVE Decoded(_, _, _)
Decoded(code, j, off) ==
    IF j > Len(code) THEN <<>>
    ELSE IF code[j].op \in {"field", "fields"}
    THEN FieldsDecoded(code[j].names, code[j].letters, 1, off)
         \o Decoded(code, j + 1, off + Sizes(code[j].letters, 1))
    ELSE IF code[j].op = "endcheck" THEN Decoded(code, j + 1, off)
    ELSE <<[name |-> code[j].name,
            as |-> IF code[j].op = "array" THEN code[j].dtype ELSE code[j].op,
            off |-> off]>>
         \o Decoded(code, j + 1, off + OpaqueLen)

\* what decoding the elements one at a time, in element order, reads
RECURSIVE OneByOne(_, _, _)
OneByOne(elements, i, off) ==
    IF i > Len(elements) THEN <<>>
    ELSE LET e == elements[i]
         IN IF IsBasicType(e)
            THEN <<[name |-> e.fName, as |-> Letter(e.fType), off |-> off]>>
                 \o OneByOne(elements, i + 1, off + LetterSize(Letter(e.fType)))
            ELSE IF e.cls = "TStreamerBasicPointer"
            THEN <<[name |-> "_" \o e.fName, as |-> "B", off |-> off],
                   [name |-> e.fName, as |-> Dtype(e.fType - kOffsetP), off |-> off + 1]>>
                 \o OneByOne(elements, i + 1, off + 1 + OpaqueLen)
            ELSE <<[name |-> e.fName,
                    as |-> IF e.cls = "TStreamerBase" THEN "base" ELSE "read",
                    off |-> off]>>
                 \o OneByOne(elements, i + 1, off + OpaqueLen)

\* the lines that decode a batch of scalars: a field(s) line that no array
\* line follows
IsBatch(code, j) ==
    /\ code[j].op \in {"field", "fields"}
    /\ ~(j < Len(code) /\ code[j + 1].op = "array")

RECURSIVE BatchNames(_, _)
BatchNames(code, j) ==
    IF j > Len(code) THEN <<>>
    ELSE (IF IsBatch(code, j) THEN code[j].names ELSE <<>>) \o BatchNames(code, j + 1)

RECURSIVE BatchLetters(_, _)
BatchLetters(code, j) ==
    IF j > Len(code) THEN <<>>
    ELSE (IF IsBatch(code, j) THEN code[j].letters ELSE <<>>)
         \o BatchLetters(code, j + 1)

\* the scalar TStreamerBasicType elements among the first n, in order
IsScalar(e) == IsBasicType(e) /\ e.fArrayLength = 0
ScalarsOf(elements, n) == SelectSeq(SubSeq(elements, 1, n), IsScalar)

\* C20: while the class is generated, the names and letters of the batches
\* emitted, followed by the batch still open, are those of the scalar
\* TStreamerBasicType elements seen, in element order, each letter the one
\* of its fType; a batch is open exactly when the element just seen is a
\* scalar and the next one is too; and when the class is made no batch is
\* open and the generated lines decode what decoding the elements one at a
\* time decodes, at the same offsets.
C20_BatchingPreservesTheDecode ==
    (boot.at \in {"elements", "class"}) =>
        LET st == boot.st
            seen == boot.i - 1
            scalars == ScalarsOf(boot.elements, seen)
        IN /\ BatchNames(st.code, 1) \o st.basicnames
                = [k \in 1..Len(scalars) |-> scalars[k].fName]
           /\ BatchLetters(st.code, 1) \o st.basicletters
                = [k \in 1..Len(scalars) |-> Letter(scalars[k].fType)]
           /\ Len(st.basicnames) = Len(st.basicletters)
           /\ st.basicnames # <<>>
                <=> /\ seen >= 1
                    /\ seen < Len(boot.elements)
                    /\ IsScalar(boot.elements[seen])
                    /\ IsScalar(boot.elements[seen + 1])
           /\ boot.at = "class" =>
                 /\ st.basicnames = <<>>
                 /\ Decoded(st.code, 1, 0) = OneByOne(boot.elements, 1, 0)

\* a class is made of a scalar, something else, and a scalar: two batches
C20_Witness ==
    /\ boot.at = "class"
    /\ Len(boot.elements) = 3
    /\ IsScalar(boot.elements[1])
    /\ ~IsScalar(boot.elements[2])
    /\ IsScalar(boot.elements[3])

\* a class is made of two scalars in a row: one batch of two
C20_WitnessBatchOfTwo ==
    /\ boot.at = "class"
    /\ \E j \in 1..Len(boot.st.code) :
          boot.st.code[j].op = "fields" /\ Len(boot.st.code[j].names) = 2

----------------------------------------------------------------------------
(* _defineclasses: the class map, C21 *)

MaxDefs == 2

\* a key of the classes dict: a byte string, or a text string that is no
\* byte string (Python 3 only; in Python 2 str is the byte string)
BytesKey(n) == [name |-> n, text |-> FALSE]
TextKey(n) == [name |-> n, text |-> TRUE]

\* the dict _defineclasses starts from: the hand-coded classes, under byte
\* strings
SeedMap == [k \in {BytesKey(n) : n \in DefinedClasses} |-> [made |-> 0, name |-> k.name]]

\* classname: fName itself when it is a str, fName.decode("ascii") otherwise
ClassNameKey(fName, py3) == IF py3 THEN TextKey(fName) ELSE BytesKey(fName)

\* the body of the loop over reversed(streamerinfos), on streamerinfos[i]:
\* the test fName not in classes, the generated class,
\* classes[classname] = _makeclass(...)
DefineOne(info, i, classes, py3) ==
    IF BytesKey(info.fName) \in DOMAIN classes THEN [err |-> NoErr, classes |-> classes]
    ELSE LET c == ClassCode(info.elements)
         IN IF c.err # NoErr THEN [err |-> c.err, classes |-> classes]
            ELSE [err |-> NoErr,
                  classes |-> (ClassNameKey(info.fName, py3)
                                  :> [made |-> i, name |-> info.fName])
                                 @@ classes]

\* the streamer infos of a file: fName and fElements
DefNames == {"TH1F", "TAxis", "TNamed"}
DefElements ==
    {<<>>, <<BasicElement("fA", kInt)>>, <<OtherElement("TStreamerArtificial", "fX", 0)>>}
DefInfos == [fName : DefNames, elements : DefElements]
DefLists == UNION {[1..n -> DefInfos] : n \in 0..MaxDefs}

InitDefine ==
    /\ file = [junk |-> "raise", dirs |-> <<>>]
    /\ keys = <<>>
    /\ context = [classes |-> DefinedClasses]
    /\ listed = <<>>
    /\ ret = [op |-> "defineclasses"]
    /\ stream = [base |-> 0, origin |-> 0, elems |-> <<>>, ok |-> TRUE, toks |-> <<>>]
    /\ cur = [index |-> 0, origin |-> 0, refs |-> <<>>]
    /\ got = <<>>
    /\ pc = [at |-> "idle"]
    /\ \E infos \in DefLists, py3 \in BOOLEAN :
          boot = [at |-> "loop", py3 |-> py3, infos |-> infos, i |-> Len(infos),
                  classes |-> SeedMap, err |-> NoErr]
    /\ events = <<>>

\* one iteration of the loop over reversed(streamerinfos)
DefineInfo ==
    /\ boot.at = "loop"
    /\ boot.i >= 1
    /\ \E d \in {DefineOne(boot.infos[boot.i], boot.i, boot.classes, boot.py3)} :
          boot' = IF d.err # NoErr THEN [boot EXCEPT !.at = "raised", !.err = d.err]
                  ELSE [boot EXCEPT !.i = @ - 1, !.classes = d.classes]
    /\ UNCHANGED <<dvars, rvars, events>>

\* return classes
DefineReturn ==
    /\ boot.at = "loop"
    /\ boot.i = 0
    /\ boot' = [boot EXCEPT !.at = "returned"]
    /\ UNCHANGED <<dvars, rvars, events>>

NextDefine == DefineInfo \/ DefineReturn

SpecDefine == InitDefine /\ [][NextDefine]_vars

\* the classes of the map that carry a name
Named(classes, n) == {k \in DOMAIN classes : classes[k].name = n}

\* C21: the class map is write-once during synthesis: no entry is ever
\* replaced, so a seed class keeps its hand-coded factory; a streamer info
\* whose fName names a class of the map is skipped; and of several streamer
\* infos of one name only the first met in reverse stored order is made.
C21_ClassMapIsWriteOnce ==
    [][boot.at = "loop" =>
         /\ \A k \in DOMAIN boot.classes :
               k \in DOMAIN boot'.classes /\ boot'.classes[k] = boot.classes[k]
         /\ \A n \in DefinedClasses : boot'.classes[BytesKey(n)].made = 0
         /\ (boot.i >= 1 /\ Named(boot.classes, boot.infos[boot.i].fName) # {})
               => boot'.classes = boot.classes
         /\ \A n \in DefNames \ DefinedClasses :
               /\ Cardinality(Named(boot'.classes, n)) <= 1
               /\ \A k \in Named(boot'.classes, n) :
                     \A j \in (boot'.classes[k].made + 1)..Len(boot.infos) :
                        boot.infos[j].fName # n
      ]_vars

\* two streamer infos of one name have both been gone through, and one of a
\* seed class's name
C21_Witness ==
    /\ boot.at = "returned"
    /\ Len(boot.infos) = 2
    /\ boot.infos[1].fName = boot.infos[2].fName
    /\ boot.infos[1].elements # boot.infos[2].elements
    /\ boot.infos[1].fName \notin DefinedClasses

\* the same under an interpreter whose str is the byte string
C21_UnderPython2 ==
    [][(boot.at = "loop" /\ ~boot.py3) =>
         /\ \A k \in DOMAIN boot.classes :
               k \in DOMAIN boot'.classes /\ boot'.classes[k] = boot.classes[k]
         /\ (boot.i >= 1 /\ Named(boot.classes, boot.infos[boot.i].fName) # {})
               => boot'.classes = boot.classes
      ]_vars

----------------------------------------------------------------------------
(* Tags of records with and without byte counts in one read: C22 *)

\* the objects without a byte count that follow the first object of a list
LongLen == 61

\* a TList of one TNamed of a new class with a byte count, LongLen TNamed of
\* the known class without one, and a reference to the first object
LongList ==
    [i \in 1..(LongLen + 2) |->
        IF i = 1 THEN [k |-> "new", framed |-> TRUE, c |-> "TNamed"]
        ELSE IF i = LongLen + 2 THEN [k |-> "ref"]
        ELSE [k |-> "known", framed |-> FALSE, c |-> "TNamed"]]

LongRecords ==
    {ListRecord(SubSeq(LongList, 1, n), o[1], o[2]) :
        n \in {1, LongLen + 1}, o \in Origins}
    \cup {ListRecord(LongList, o[1], o[2]) : o \in Origins}

InitLong ==
    /\ file = [junk |-> "raise", dirs |-> <<>>]
    /\ keys = <<>>
    /\ context = [classes |-> DefinedClasses]
    /\ listed = <<>>
    /\ ret = [op |-> "get", n |-> 1]
    /\ stream \in LongRecords
    /\ cur = GetCursor(KeyCursor(stream), KeyCursor(stream))
    /\ got = <<>>
    /\ pc = [at |-> "start"]
    /\ boot = [at |-> "idle"]
    /\ events = <<>>

SpecLong == InitLong /\ [][NextRef]_vars

\* C22: within the lifetime of one cursor no step of a read replaces an
\* entry of cursor.refs: every tag registered keeps the value first
\* registered under it, also when records with a byte count (keyed by
\* offset + kMapOffset) and records without (keyed by len(refs) + 1) are
\* read by the same cursor.
C22_NoEntryIsOverwritten ==
    [][ret'.n = ret.n =>
         \A k \in DOMAIN cur.refs :
            k \in DOMAIN cur'.refs /\ cur'.refs[k] = cur.refs[k]
      ]_vars

\* C22, second half: a reference returns the object first registered under
\* its tag.
C22_ReferenceDenotesFirstObject ==
    (pc.at = "done" /\ stream.elems[Len(stream.elems)].k = "ref")
        => got[Len(got)] = got[1]

----------------------------------------------------------------------------
(* Paths with an explicit cycle: C23 *)

\* the keys stored in the directory a TDirectory key points to
StoredIn(d) ==
    IF d.fSeekKey + d.fKeylen \in DOMAIN file.dirs
    THEN file.dirs[d.fSeekKey + d.fKeylen].keys ELSE <<>>

\* the keys of ds named n with cycle c
Hits(ds, n, c) == {j \in 1..Len(ds) : ds[j].fName = n /\ ds[j].fCycle = c}

\* every segment from i on names a key of cycle c, each one but the last a
\* directory holding the next
RECURSIVE EachHasCycle(_, _, _, _)
EachHasCycle(ds, segs, i, c) ==
    /\ Hits(ds, segs[i], c) # {}
    /\ i < Len(segs) =>
          LET d == ds[Min(Hits(ds, segs[i], c))]
          IN d.fClassName = "TDirectory" /\ EachHasCycle(StoredIn(d), segs, i + 1, c)

\* some segment before the last names directory keys, none of cycle c, the
\* segments before it found with cycle c
RECURSIVE DirectoryLacksCycle(_, _, _, _)
DirectoryLacksCycle(ds, segs, i, c) ==
    /\ i < Len(segs)
    /\ IF Hits(ds, segs[i], c) = {}
       THEN \E j \in 1..Len(ds) : ds[j].fName = segs[i] /\ ds[j].fClassName = "TDirectory"
       ELSE LET d == ds[Min(Hits(ds, segs[i], c))]
            IN d.fClassName = "TDirectory"
               /\ DirectoryLacksCycle(StoredIn(d), segs, i + 1, c)

\* the call get(name, cycle=c) of a path was made
PathWithCycle(r) == r.op = "get" /\ Contains(r.name, Slash) /\ r.cycle # None

\* C23: get(name, cycle=c) of a path applies c to every segment: it returns
\* a result only if every key on the path, the directories included, has
\* fCycle c, and it fails with KeyError when a directory on the path has no
\* key of cycle c.
C23_CycleAppliesToEverySegment ==
    [][PathWithCycle(ret') =>
         LET segs == Split(ret'.name)
             c == ret'.cycle[1]
             root == file.dirs[100].keys
         IN /\ ~IsErr(ret'.val) => EachHasCycle(root, segs, 1, c)
            /\ DirectoryLacksCycle(root, segs, 1, c) => ret'.val = Err("KeyError")
      ]_vars

\* the same of the calls that read each directory on the path for the first
\* time
C23_OnFirstReads ==
    [][(PathWithCycle(ret') /\ keys = ReadKeys(file.dirs[100].keys)) =>
         LET segs == Split(ret'.name)
             c == ret'.cycle[1]
             root == file.dirs[100].keys
         IN /\ ~IsErr(ret'.val) => EachHasCycle(root, segs, 1, c)
            /\ DirectoryLacksCycle(root, segs, 1, c) => ret'.val = Err("KeyError")
      ]_vars

====
